---------------------------- MODULE Spec2Model ----------------------------
(***************************************************************************)
(* A model of the bindgen pipeline of libnativeapi/nativeapi               *)
(* (tools/bindgen): IR model and serializer, normalizer, naming            *)
(* transformer, type/symbol mapper, context builder and generator.         *)
(*                                                                         *)
(* Conventions.                                                            *)
(*  - A Python str is a sequence of one-character strings, so that         *)
(*    slicing, matching and re-casing are computed as the code computes    *)
(*    them.  Discriminators that the code only compares (an IRType kind,   *)
(*    an item kind, an access specifier) are TLA+ strings.                 *)
(*  - A Python Optional[T] is a sequence of length 0 (None) or 1.          *)
(*  - A Python dict is a function; its DOMAIN is its key set.              *)
(*  - A Python call that raises is an outcome record [exc |-> name]; a     *)
(*    call that returns v is [exc |-> "", val |-> v].                      *)
(*                                                                         *)
(* The module holds one specification per stage of the pipeline; a         *)
(* specification leaves the variables of the other stages at their idle    *)
(* values.                                                                 *)
(***************************************************************************)
EXTENDS Integers, Sequences, FiniteSets, TLC

VARIABLES
    \* --- type mapping (normalizer._type_from_clang, TypeMapper.map_type)
    tpc,        \* position: "idle" | "clang" | "ir" | "mapped" | "filtered"
    tp,         \* Optional clang type handed to _type_from_clang
    ir_type,    \* Optional IRType handed to map_type
    mapping,    \* the MappingConfig in force
    mapped,     \* Optional outcome of TypeMapper.map_type
    filtered,   \* Optional string that the template filter map_type returns
    \* --- naming (codegen/naming.py)
    nmpc,       \* position: "idle" | "input" | "stripped" | "styled" | "transformed"
    nm,         \* the arguments of the call
    nm_result,  \* Optional result of the call
    \* --- mapping of a method (TypeMapper.map_method)
    mpc,        \* position: "idle" | "input" | "mapped"
    mapper,     \* the TypeMapper
    m_class,    \* the IRClass of the method
    m_method,   \* the IRMethod handed to map_method
    m_mapped,   \* Optional MappedMethod
    \* --- mapping of a function (TypeMapper.map_function)
    fpc,        \* position: "idle" | "input" | "mapped"
    f_mapper,   \* the TypeMapper
    f_func,     \* the IRFunction handed to map_function
    f_mapped,   \* Optional MappedFunction
    \* --- normalizer (normalize_translation_unit)
    npc,        \* position: "idle" | "parsed" | "normalized" | "mapped"
    tu_in,       \* the top-level cursors of the translation unit
    filters,    \* the compiled filters and the project root
    ir_module,  \* Optional IRModule that the normalizer returns
    n_context,  \* Optional result of build_context on that IRModule
    \* --- IR serializer (dump_ir_json, load_ir_json)
    spc,        \* position: "idle" | "start" | "dumped" | "loaded" | "reloaded"
    s_module,   \* the IRModule in memory
    s_doc,      \* Optional JSON document in the IR file
    s_loaded,   \* Optional outcome of load_ir_json
    \* --- generator (generate_bindings), run twice on the same inputs
    g_in,       \* the inputs: module, configuration, output directory,
                \* template directory, commands that fail on this machine
    g_glob,     \* per run: Optional listings that the glob calls yielded
    g_run,      \* per run: Optional outcome of generate_bindings
    g_context,  \* Optional result of build_context on the inputs
    \* --- command line (cli.main)
    c_in,       \* the arguments of the command line and what the run finds:
                \* configuration file, parsed headers, template directory
    c_exit      \* Optional outcome of main

typeVars == <<tpc, tp, ir_type, mapping, mapped, filtered>>
nameVars == <<nmpc, nm, nm_result>>
methodVars == <<mpc, mapper, m_class, m_method, m_mapped>>
funcVars == <<fpc, f_mapper, f_func, f_mapped>>
normVars == <<npc, tu_in, filters, ir_module, n_context>>
serVars == <<spc, s_module, s_doc, s_loaded>>
genVars == <<g_in, g_glob, g_run, g_context>>
cliVars == <<c_in, c_exit>>
vars == <<typeVars, nameVars, methodVars, funcVars, normVars, serVars, genVars, cliVars>>

\* What the actions of one stage leave alone.
otherThanType == <<nameVars, methodVars, funcVars, normVars, serVars, genVars, cliVars>>
otherThanName == <<typeVars, methodVars, funcVars, normVars, serVars, genVars, cliVars>>
otherThanMethod == <<typeVars, nameVars, funcVars, normVars, serVars, genVars, cliVars>>
otherThanFunc == <<typeVars, nameVars, methodVars, normVars, serVars, genVars, cliVars>>
otherThanNorm == <<typeVars, nameVars, methodVars, funcVars, serVars, genVars, cliVars>>
otherThanSer == <<typeVars, nameVars, methodVars, funcVars, normVars, genVars, cliVars>>
otherThanGen == <<typeVars, nameVars, methodVars, funcVars, normVars, serVars, cliVars>>
otherThanCli == <<typeVars, nameVars, methodVars, funcVars, normVars, serVars, genVars>>

----------------------------------------------------------------------------
(* Bounds of the model *)

\* Nesting depth of the IRType trees that are enumerated.
MaxDepth == 2

\* Number of top-level declarations of a translation unit.
MaxDecls == 2

\* Number of items of a file of an IR module that is serialized.
MaxItems == 2

----------------------------------------------------------------------------
(* Python values *)

None == <<>>
Some(x) == <<x>>

Ok(v) == [exc |-> "", val |-> v]
Raised(e) == [exc |-> e]

Range(s) == {s[i] : i \in DOMAIN s}

\* Truthiness of an Optional[str]: None and "" are falsy.
Truthy(o) == o # None /\ o[1] # <<>>

\* `name or default` on an Optional[str].
NameOr(name, default) == IF Truthy(name) THEN name[1] ELSE default

\* dict.get(key, default)
Get(d, k, default) == IF k \in DOMAIN d THEN d[k] ELSE default

Max(S) == CHOOSE x \in S : \A y \in S : y <= x

----------------------------------------------------------------------------
(* Python str *)

LowerCase == <<"a", "b", "c", "d", "e", "f", "g", "h", "i", "j", "k", "l", "m", "n", "o", "p", "q", "r", "s", "t", "u", "v", "w", "x", "y", "z">>
UpperCase == <<"A", "B", "C", "D", "E", "F", "G", "H", "I", "J", "K", "L", "M", "N", "O", "P", "Q", "R", "S", "T", "U", "V", "W", "X", "Y", "Z">>
Digits == <<"0", "1", "2", "3", "4", "5", "6", "7", "8", "9">>

\* The printable ASCII characters in code point order (32 .. 126, without
\* the backquote, which no name or path of the model holds).
Ascii == <<" ", "!">> \o <<"\"">> \o <<"#", "$", "%", "&", "'", "(", ")", "*", "+", ",", "-", ".", "/", "0", "1", "2", "3", "4", "5", "6", "7", "8", "9", ":", ";", "<", "=", ">", "?", "@", "A", "B", "C", "D", "E", "F", "G", "H", "I", "J", "K", "L", "M", "N", "O", "P", "Q", "R", "S", "T", "U", "V", "W", "X", "Y", "Z", "[">> \o <<"\\">> \o <<"]", "^", "_", "a", "b", "c", "d", "e", "f", "g", "h", "i", "j", "k", "l", "m", "n", "o", "p", "q", "r", "s", "t", "u", "v", "w", "x", "y", "z", "{", "|", "}", "~">>

IndexIn(c, s) == CHOOSE i \in DOMAIN s : s[i] = c

IsUpper(c) == c \in Range(UpperCase)
IsLower(c) == c \in Range(LowerCase)
IsDigit(c) == c \in Range(Digits)
IsSpace(c) == c = " "

\* str.lower() and str.upper() on one character and on a string
LowerChar(c) == IF IsUpper(c) THEN LowerCase[IndexIn(c, UpperCase)] ELSE c
UpperChar(c) == IF IsLower(c) THEN UpperCase[IndexIn(c, LowerCase)] ELSE c
Lower(s) == [i \in DOMAIN s |-> LowerChar(s[i])]
Upper(s) == [i \in DOMAIN s |-> UpperChar(s[i])]

\* s[i:] and s[:j] for 0 <= i, j
From(s, i) == SubSeq(s, i + 1, Len(s))
Upto(s, j) == SubSeq(s, 1, IF j < Len(s) THEN j ELSE Len(s))

StartsWith(s, p) == Len(p) <= Len(s) /\ SubSeq(s, 1, Len(p)) = p
EndsWith(s, p) == Len(p) <= Len(s) /\ SubSeq(s, Len(s) - Len(p) + 1, Len(s)) = p

\* `m in s`
Contains(s, m) ==
    \E i \in 0..(Len(s) - Len(m)) : SubSeq(s, i + 1, i + Len(m)) = m

\* str(n) for a natural number
RECURSIVE IntStr(_)
IntStr(n) == IF n < 10 THEN <<Digits[n + 1]>>
             ELSE IntStr(n \div 10) \o <<Digits[(n % 10) + 1]>>

\* a < b for two strings (code point order, as sorted() compares them)
RECURSIVE StrLess(_, _)
StrLess(a, b) ==
    IF a = <<>> THEN b # <<>>
    ELSE IF b = <<>> THEN FALSE
    ELSE IF a[1] = b[1] THEN StrLess(Tail(a), Tail(b))
    ELSE IndexIn(a[1], Ascii) < IndexIn(b[1], Ascii)

\* "".join(parts) and sep.join(parts)
RECURSIVE Join(_, _)
Join(sep, parts) ==
    IF parts = <<>> THEN <<>>
    ELSE IF Len(parts) = 1 THEN parts[1]
    ELSE parts[1] \o sep \o Join(sep, Tail(parts))

\* s.split(c) for a one-character separator: at least one part
RECURSIVE Split(_, _)
Split(s, c) ==
    IF \A i \in DOMAIN s : s[i] # c THEN <<s>>
    ELSE LET i == CHOOSE k \in DOMAIN s : s[k] = c /\ \A j \in 1..(k - 1) : s[j] # c
         IN  <<SubSeq(s, 1, i - 1)>> \o Split(From(s, i), c)

----------------------------------------------------------------------------
(* ir/model.py *)

IRType(kind, name, to, element, length, qualifiers) ==
    [kind |-> kind, name |-> name, to |-> to, element |-> element,
     length |-> length, qualifiers |-> qualifiers, scoped |-> None]

IRKind(kind, qualifiers) == IRType(kind, None, None, None, None, qualifiers)
IRNamed(kind, name, qualifiers) == IRType(kind, name, None, None, None, qualifiers)

\* str(kind) for the IRType kinds that have no branch of their own in the
\* mapper, where the kind tag is used as the type name.
KindName ==
    [unknown |-> <<"u", "n", "k", "n", "o", "w", "n">>, bool |-> <<"b", "o", "o", "l">>, int8 |-> <<"i", "n", "t", "8">>,
     uint8 |-> <<"u", "i", "n", "t", "8">>, int16 |-> <<"i", "n", "t", "1", "6">>, uint16 |-> <<"u", "i", "n", "t", "1", "6">>,
     int32 |-> <<"i", "n", "t", "3", "2">>, uint32 |-> <<"u", "i", "n", "t", "3", "2">>, int64 |-> <<"i", "n", "t", "6", "4">>,
     uint64 |-> <<"u", "i", "n", "t", "6", "4">>, float32 |-> <<"f", "l", "o", "a", "t", "3", "2">>, float64 |-> <<"f", "l", "o", "a", "t", "6", "4">>,
     cstring |-> <<"c", "s", "t", "r", "i", "n", "g">>, rvalue_reference |-> <<"r", "v", "a", "l", "u", "e", "_", "r", "e", "f", "e", "r", "e", "n", "c", "e">>,
     size_t |-> <<"s", "i", "z", "e", "_", "t">>, ssize_t |-> <<"s", "s", "i", "z", "e", "_", "t">>, intptr |-> <<"i", "n", "t", "p", "t", "r">>,
     uintptr |-> <<"u", "i", "n", "t", "p", "t", "r">>, alias |-> <<"a", "l", "i", "a", "s">>]

IRField(name, type) == [name |-> name, type |-> type]

IREnumValue(name, value) == [name |-> name, value |-> value]

IRParam(name, type, nullable, direction) ==
    [name |-> name, type |-> type, nullable |-> nullable,
     direction |-> direction]

IRMethod(name, return_type, params, kind, static, const, access, variadic) ==
    [name |-> name, return_type |-> return_type, params |-> params,
     kind |-> kind, static |-> static, const |-> const, access |-> access,
     variadic |-> variadic]

IRStruct(name, fields, qualified_name) ==
    [kind |-> "struct", name |-> name, fields |-> fields,
     qualified_name |-> qualified_name]

IREnum(name, values, scoped, qualified_name) ==
    [kind |-> "enum", name |-> name, values |-> values, scoped |-> scoped,
     qualified_name |-> qualified_name]

IRAlias(name, target) == [kind |-> "alias", name |-> name, target |-> target]

IRFunction(name, return_type, params, callconv, variadic, qualified_name) ==
    [kind |-> "function", name |-> name, return_type |-> return_type,
     params |-> params, callconv |-> callconv, variadic |-> variadic,
     qualified_name |-> qualified_name]

IRClass(name, fields, methods, bases, qualified_name) ==
    [kind |-> "class", name |-> name, fields |-> fields, methods |-> methods,
     bases |-> bases, qualified_name |-> qualified_name]

IRConstant(name, type, value) ==
    [kind |-> "constant", name |-> name, type |-> type, value |-> value]

IRFile(items) == [items |-> items]

\* IRModule.files: a dict from file path to IRFile.
IRModule(files) == [files |-> files]

----------------------------------------------------------------------------
(* config.py: NamingConfig, MappingConfig *)

\* A NamingConfig whose eleven styles are all `style`.
NamingConfig(style, strip_prefixes, strip_suffixes, add_prefix, add_suffix) ==
    [file_name |-> style, type_name |-> style, enum_name |-> style,
     enum_value_name |-> style, function_name |-> style,
     method_name |-> style, class_name |-> style, field_name |-> style,
     param_name |-> style, constant_name |-> style, alias_name |-> style,
     strip_prefixes |-> strip_prefixes, strip_suffixes |-> strip_suffixes,
     add_prefix |-> add_prefix, add_suffix |-> add_suffix]

DefaultNaming == NamingConfig("original", <<>>, <<>>, <<>>, <<>>)

\* MappingConfig.options, with the keys that TypeMapper.__init__ reads.  An
\* insertion-ordered dict that the code iterates is a sequence of
\* <<key, value>> pairs.
Options(symbol_overrides, singleton_classes, cstring_free_symbols, bridge_types, api_type_rules, return_bridge_map, param_bridges) ==
    [symbol_overrides |-> symbol_overrides,
     singleton_classes |-> singleton_classes,
     cstring_free_symbols |-> cstring_free_symbols,
     bridge_types |-> bridge_types,
     api_type_rules |-> api_type_rules,
     return_bridge_map |-> return_bridge_map,
     param_bridges |-> param_bridges]

NoOptions ==
    Options(<<>>, <<>>, <<>>, <<>>, [exact |-> <<>>, contains |-> <<>>],
            <<>>, <<>>)

\* A format string is a sequence of pieces: literal text or a {placeholder}.
Lit(s) == [lit |-> s, ph |-> ""]
Ph(n) == [lit |-> <<>>, ph |-> n]

\* str.format(**args) for a format whose placeholders are all keys of args.
RECURSIVE Format(_, _)
Format(fmt, args) ==
    IF fmt = <<>> THEN <<>>
    ELSE (IF Head(fmt).ph = "" THEN Head(fmt).lit ELSE args[Head(fmt).ph])
         \o Format(Tail(fmt), args)

MappingConfig(types, default_type, passthrough_unknown, type_prefix, void_pointer_type, const_char_pointer_type, naming, options) ==
    [types |-> types,
     pointer_format |-> <<Ph("inner"), Lit(<<"*">>)>>,
     const_pointer_format |-> <<Lit(<<"c", "o", "n", "s", "t", " ">>), Ph("inner"), Lit(<<"*">>)>>,
     array_format |-> <<Ph("element"), Lit(<<"[">>), Ph("length"), Lit(<<"]">>)>>,
     reference_format |-> <<Ph("inner"), Lit(<<"&">>)>>,
     default_type |-> default_type,
     passthrough_unknown |-> passthrough_unknown,
     type_prefix |-> type_prefix,
     type_suffix |-> <<>>,
     void_pointer_type |-> void_pointer_type,
     const_char_pointer_type |-> const_char_pointer_type,
     naming |-> naming,
     options |-> options]

\* The fields of BindgenConfig that the pipeline after the parser reads.
BindgenConfig(mapping_config, filter_config) ==
    [mapping |-> mapping_config, filters |-> filter_config]

----------------------------------------------------------------------------
(* ir/serializer.py.  The IR file is modelled as the JSON value that
   json.dumps writes and json.loads reads back. *)

JNull == [json |-> "null"]
JBool(b) == [json |-> "bool", v |-> b]
JNum(n) == [json |-> "number", v |-> n]
JFloat(text) == [json |-> "float", v |-> text]
JStr(s) == [json |-> "string", v |-> s]
JArr(a) == [json |-> "array", v |-> a]
JObj(o) == [json |-> "object", v |-> o]

\* The JSON value of an Optional scalar: null for None.
JOptStr(o) == IF o = None THEN JNull ELSE JStr(o[1])
JOptNum(o) == IF o = None THEN JNull ELSE JNum(o[1])
JOptBool(o) == IF o = None THEN JNull ELSE JBool(o[1])

\* The Python value that json.loads gives for a scalar, and for a scalar
\* that an Optional field takes.
value_of(j) == IF j = JNull THEN None ELSE j.v
optional_of(j) == IF j = JNull THEN None ELSE Some(j.v)

\* Truthiness of a loaded JSON value.
json_truthy(j) ==
    CASE j.json = "null" -> FALSE
      [] j.json = "bool" -> j.v
      [] j.json = "number" -> j.v # 0
      [] j.json = "float" -> TRUE
      [] j.json = "object" -> DOMAIN j.v # {}
      [] OTHER -> j.v # <<>>

\* data.get(key, default) on a loaded JSON object
json_get(data, key, default) ==
    IF key \in DOMAIN data.v THEN data.v[key] ELSE default

\* The JSON value of IRConstant.value.
json_of_value(value) ==
    IF "int" \in DOMAIN value THEN JNum(value.int)
    ELSE IF "float" \in DOMAIN value THEN JFloat(value.float)
    ELSE JStr(value.str)

\* The value of a constant from its JSON value.
value_of_json(j) ==
    IF j.json = "string" THEN [str |-> j.v]
    ELSE IF j.json = "float" THEN [float |-> j.v]
    ELSE [int |-> j.v]

\* dataclasses.asdict on an IRType, as JSON
RECURSIVE asdict_type(_)
asdict_type(t) ==
    JObj([kind |-> JStr(t.kind),
          name |-> JOptStr(t.name),
          to |-> IF t.to = None THEN JNull ELSE asdict_type(t.to[1]),
          element |-> IF t.element = None THEN JNull
                      ELSE asdict_type(t.element[1]),
          length |-> JOptNum(t.length),
          qualifiers |-> JArr([i \in DOMAIN t.qualifiers |->
                                  JStr(t.qualifiers[i])]),
          scoped |-> JOptBool(t.scoped)])

asdict_field(f) == JObj([name |-> JStr(f.name), type |-> asdict_type(f.type)])

asdict_param(p) ==
    JObj([name |-> JStr(p.name), type |-> asdict_type(p.type),
          nullable |-> JBool(p.nullable),
          direction |-> JOptStr(p.direction)])

asdict_method(m) ==
    JObj([name |-> JStr(m.name),
          return_type |-> asdict_type(m.return_type),
          params |-> JArr([i \in DOMAIN m.params |-> asdict_param(m.params[i])]),
          kind |-> JStr(m.kind),
          static |-> JBool(m.static),
          const |-> JBool(m.const),
          access |-> JOptStr(m.access),
          variadic |-> JBool(m.variadic)])

\* asdict on an Optional[IRType] field
asdict_optional_type(o) == IF o = None THEN JNull ELSE asdict_type(o[1])

\* _serialize_item: asdict(item)
serialize_item(item) ==
    CASE item.kind = "struct" ->
            JObj([kind |-> JStr(item.kind), name |-> JStr(item.name),
                  fields |-> JArr([i \in DOMAIN item.fields |->
                                      asdict_field(item.fields[i])]),
                  qualified_name |-> JOptStr(item.qualified_name)])
      [] item.kind = "enum" ->
            JObj([kind |-> JStr(item.kind), name |-> JStr(item.name),
                  values |-> JArr([i \in DOMAIN item.values |->
                                      JObj([name |-> JStr(item.values[i].name),
                                            value |-> JNum(item.values[i].value)])]),
                  scoped |-> JBool(item.scoped),
                  qualified_name |-> JOptStr(item.qualified_name)])
      [] item.kind = "alias" ->
            JObj([kind |-> JStr(item.kind), name |-> JStr(item.name),
                  target |-> asdict_optional_type(item.target)])
      [] item.kind = "function" ->
            JObj([kind |-> JStr(item.kind), name |-> JStr(item.name),
                  return_type |-> asdict_optional_type(item.return_type),
                  params |-> JArr([i \in DOMAIN item.params |->
                                      asdict_param(item.params[i])]),
                  callconv |-> JOptStr(item.callconv),
                  variadic |-> JBool(item.variadic),
                  qualified_name |-> JOptStr(item.qualified_name)])
      [] item.kind = "class" ->
            JObj([kind |-> JStr(item.kind), name |-> JStr(item.name),
                  fields |-> JArr([i \in DOMAIN item.fields |->
                                      asdict_field(item.fields[i])]),
                  methods |-> JArr([i \in DOMAIN item.methods |->
                                       asdict_method(item.methods[i])]),
                  bases |-> JArr([i \in DOMAIN item.bases |->
                                     JStr(item.bases[i])]),
                  qualified_name |-> JOptStr(item.qualified_name)])
      [] item.kind = "constant" ->
            JObj([kind |-> JStr(item.kind), name |-> JStr(item.name),
                  type |-> asdict_optional_type(item.type),
                  value |-> json_of_value(item.value)])

serialize_file(ir_file) ==
    JArr([i \in DOMAIN ir_file.items |-> serialize_item(ir_file.items[i])])

\* dump_ir_json: the document written to the IR file.
dump_ir_json(module) ==
    JObj([file_path \in DOMAIN module.files |->
            serialize_file(module.files[file_path])])

RECURSIVE parse_ir_type(_)
parse_ir_type(data) ==
    IF data = JNull THEN IRKind("void", <<>>)
    ELSE LET quals == json_get(data, "qualifiers", JArr(<<>>)).v
         IN  [kind |-> value_of(json_get(data, "kind", JStr(""))),
              name |-> optional_of(json_get(data, "name", JNull)),
              to |-> IF json_truthy(json_get(data, "to", JNull))
                     THEN Some(parse_ir_type(data.v.to)) ELSE None,
              element |-> IF json_truthy(json_get(data, "element", JNull))
                          THEN Some(parse_ir_type(data.v.element)) ELSE None,
              length |-> optional_of(json_get(data, "length", JNull)),
              qualifiers |-> [i \in DOMAIN quals |-> value_of(quals[i])],
              scoped |-> optional_of(json_get(data, "scoped", JNull))]

parse_ir_field(data) ==
    IRField(value_of(json_get(data, "name", JStr(<<>>))),
            parse_ir_type(json_get(data, "type", JObj(<<>>))))

parse_ir_enum_value(data) ==
    IREnumValue(value_of(json_get(data, "name", JStr(<<>>))),
                value_of(json_get(data, "value", JNum(0))))

parse_ir_param(data) ==
    IRParam(value_of(json_get(data, "name", JStr(<<>>))),
            parse_ir_type(json_get(data, "type", JObj(<<>>))),
            value_of(json_get(data, "nullable", JBool(FALSE))),
            optional_of(json_get(data, "direction", JNull)))

\* data.get(key, []): the list under the key
json_list(data, key) == json_get(data, key, JArr(<<>>)).v

parse_ir_method(data) ==
    IRMethod(value_of(json_get(data, "name", JStr(<<>>))),
             parse_ir_type(json_get(data, "return_type", JObj(<<>>))),
             [i \in DOMAIN json_list(data, "params") |->
                parse_ir_param(json_list(data, "params")[i])],
             value_of(json_get(data, "kind", JStr("method"))),
             value_of(json_get(data, "static", JBool(FALSE))),
             value_of(json_get(data, "const", JBool(FALSE))),
             optional_of(json_get(data, "access", JNull)),
             value_of(json_get(data, "variadic", JBool(FALSE))))

parse_ir_struct(data) ==
    IRStruct(value_of(json_get(data, "name", JStr(<<>>))),
             [i \in DOMAIN json_list(data, "fields") |->
                parse_ir_field(json_list(data, "fields")[i])],
             optional_of(json_get(data, "qualified_name", JNull)))

parse_ir_enum(data) ==
    IREnum(value_of(json_get(data, "name", JStr(<<>>))),
           [i \in DOMAIN json_list(data, "values") |->
                parse_ir_enum_value(json_list(data, "values")[i])],
           value_of(json_get(data, "scoped", JBool(FALSE))),
           optional_of(json_get(data, "qualified_name", JNull)))

\* The Optional fields target, return_type and type hold the IRType that
\* _parse_ir_type returns, whatever the document holds.
parse_ir_alias(data) ==
    IRAlias(value_of(json_get(data, "name", JStr(<<>>))),
            Some(parse_ir_type(json_get(data, "target", JObj(<<>>)))))

parse_ir_function(data) ==
    IRFunction(value_of(json_get(data, "name", JStr(<<>>))),
               Some(parse_ir_type(json_get(data, "return_type", JObj(<<>>)))),
               [i \in DOMAIN json_list(data, "params") |->
                parse_ir_param(json_list(data, "params")[i])],
               optional_of(json_get(data, "callconv", JNull)),
               value_of(json_get(data, "variadic", JBool(FALSE))),
               optional_of(json_get(data, "qualified_name", JNull)))

parse_ir_class(data) ==
    IRClass(value_of(json_get(data, "name", JStr(<<>>))),
            [i \in DOMAIN json_list(data, "fields") |->
                parse_ir_field(json_list(data, "fields")[i])],
            [i \in DOMAIN json_list(data, "methods") |->
                parse_ir_method(json_list(data, "methods")[i])],
            [i \in DOMAIN json_list(data, "bases") |->
                value_of(json_list(data, "bases")[i])],
            optional_of(json_get(data, "qualified_name", JNull)))

parse_ir_constant(data) ==
    IRConstant(value_of(json_get(data, "name", JStr(<<>>))),
               Some(parse_ir_type(json_get(data, "type", JObj(<<>>)))),
               value_of_json(json_get(data, "value", JNum(0))))

ItemKinds == {"struct", "enum", "alias", "function", "class", "constant"}

\* _parse_ir_item for a kind it knows
parse_ir_item(data) ==
    LET kind == value_of(json_get(data, "kind", JStr("")))
    IN  CASE kind = "struct" -> parse_ir_struct(data)
          [] kind = "enum" -> parse_ir_enum(data)
          [] kind = "alias" -> parse_ir_alias(data)
          [] kind = "function" -> parse_ir_function(data)
          [] kind = "class" -> parse_ir_class(data)
          [] kind = "constant" -> parse_ir_constant(data)

parse_ir_file(items_data) ==
    IRFile([i \in DOMAIN items_data.v |-> parse_ir_item(items_data.v[i])])

\* load_ir_json: ValueError from _parse_ir_item for an item of unknown kind.
load_ir_json(doc) ==
    IF \E file_path \in DOMAIN doc.v : \E i \in DOMAIN doc.v[file_path].v :
          value_of(json_get(doc.v[file_path].v[i], "kind", JStr("")))
              \notin ItemKinds
    THEN Raised("ValueError")
    ELSE Ok(IRModule([file_path \in DOMAIN doc.v |->
                         parse_ir_file(doc.v[file_path])]))

----------------------------------------------------------------------------
(* normalizer.py: _type_from_clang *)

\* The clang builtin kinds that map to an IR kind of their own (lines 94-123).
BuiltinKind ==
    [VOID |-> "void", BOOL |-> "bool", CHAR_S |-> "int8", SCHAR |-> "int8",
     UCHAR |-> "uint8", SHORT |-> "int16", USHORT |-> "uint16",
     INT |-> "int32", UINT |-> "uint32", LONG |-> "int64", ULONG |-> "uint64",
     LONGLONG |-> "int64", ULONGLONG |-> "uint64", FLOAT |-> "float32",
     DOUBLE |-> "float64"]

\* The typedef spellings with an IR kind of their own (lines 158-165).
TypedefKind ==
    (<<"s", "i", "z", "e", "_", "t">> :> "size_t" @@ <<"s", "s", "i", "z", "e", "_", "t">> :> "ssize_t"
     @@ <<"i", "n", "t", "p", "t", "r", "_", "t">> :> "intptr" @@ <<"u", "i", "n", "t", "p", "t", "r", "_", "t">> :> "uintptr")

\* A clang.cindex.Type, as far as _type_from_clang reads it.
ClangType(kind, const, spelling, pointee, element_type, element_count, canonical) ==
    [kind |-> kind, const |-> const, volatile |-> FALSE, spelling |-> spelling,
     pointee |-> pointee, element_type |-> element_type,
     element_count |-> element_count, canonical |-> canonical]

clang_qualifiers(t) ==
    (IF t.const THEN <<"const">> ELSE <<>>)
    \o (IF t.volatile THEN <<"volatile">> ELSE <<>>)

RECURSIVE type_from_clang(_)
type_from_clang(t) ==
    LET qualifiers == clang_qualifiers(t)
        kind == t.kind
    IN  CASE kind \in DOMAIN BuiltinKind ->
                IRKind(BuiltinKind[kind], qualifiers)
          [] kind = "LVALUEREFERENCE" ->
                IRType("reference", None, Some(type_from_clang(t.pointee[1])),
                       None, None, qualifiers)
          [] kind = "RVALUEREFERENCE" ->
                IRType("rvalue_reference", None,
                       Some(type_from_clang(t.pointee[1])), None, None,
                       qualifiers)
          [] kind = "POINTER" ->
                IF t.pointee[1].kind = "CHAR_S"
                THEN IRKind("cstring", qualifiers)
                ELSE IRType("pointer", None,
                            Some(type_from_clang(t.pointee[1])), None, None,
                            qualifiers)
          [] kind = "CONSTANTARRAY" ->
                IRType("array", None, None,
                       Some(type_from_clang(t.element_type[1])),
                       Some(t.element_count), qualifiers)
          [] kind = "RECORD" -> IRNamed("struct", Some(t.spelling), qualifiers)
          [] kind = "ENUM" -> IRNamed("enum", Some(t.spelling), qualifiers)
          [] kind \in {"ELABORATED", "UNEXPOSED"} ->
                IF t.canonical[1].kind # kind
                THEN type_from_clang(t.canonical[1])
                ELSE IRNamed("unknown", Some(t.spelling), qualifiers)
          [] kind = "TYPEDEF" ->
                IF t.spelling \in DOMAIN TypedefKind
                THEN IRKind(TypedefKind[t.spelling], qualifiers)
                ELSE IRNamed("alias", Some(t.spelling), qualifiers)
          [] OTHER -> IRNamed("unknown", Some(t.spelling), qualifiers)

----------------------------------------------------------------------------
(* normalizer.py: filters, cursor paths and normalize_translation_unit *)

\* re.compile(pattern).search(name) for a pattern that is literal text with
\* an optional leading "^" and an optional trailing "$".
re_search(pattern, name) ==
    LET at_start == pattern # <<>> /\ Head(pattern) = "^"
        p1 == IF at_start THEN Tail(pattern) ELSE pattern
        at_end == p1 # <<>> /\ p1[Len(p1)] = "$"
        text == IF at_end THEN Upto(p1, Len(p1) - 1) ELSE p1
    IN  CASE at_start /\ at_end -> name = text
          [] at_start -> StartsWith(name, text)
          [] at_end -> EndsWith(name, text)
          [] OTHER -> Contains(name, text)

\* Mutant of passes_name_filters: the deny list is not consulted.
passes_name_filters_allow_only(name, allow, deny) ==
    ~(allow # <<>> /\ ~\E i \in DOMAIN allow : re_search(allow[i], name))

passes_name_filters(name, allow, deny) ==
    IF allow # <<>> /\ ~\E i \in DOMAIN allow : re_search(allow[i], name)
    THEN FALSE
    ELSE IF deny # <<>> /\ \E i \in DOMAIN deny : re_search(deny[i], name)
    THEN FALSE
    ELSE TRUE

\* A clang cursor, as the normalizer reads it: `fields` over the defaults.
\* location.file is the resolved absolute path as its sequence of parts,
\* the first of which is "/".
Cursor(kind, spelling, fields) ==
    fields @@
    [kind |-> kind, spelling |-> spelling, file |-> None,
     raw_comment |-> None, is_definition |-> TRUE, children |-> <<>>,
     type |-> None, access_specifier |-> "PUBLIC", arguments |-> <<>>,
     result_type |-> None, is_static_method |-> FALSE,
     is_const_method |-> FALSE, is_function_variadic |-> FALSE,
     is_scoped_enum |-> FALSE, enum_value |-> 0,
     underlying_typedef_type |-> None, declaration |-> None,
     tokens |-> <<>>]

is_ignored(cursor) ==
    /\ Truthy(cursor.raw_comment)
    /\ Contains(cursor.raw_comment[1], <<"b", "i", "n", "d", "g", "e", "n", ":", "i", "g", "n", "o", "r", "e">>)

is_excluded(cursor, exclude_dirs) ==
    IF exclude_dirs = {} \/ cursor.file = None THEN FALSE
    ELSE \E i \in DOMAIN cursor.file[1] : cursor.file[1][i] \in exclude_dirs

\* Path(*parts).as_posix()
as_posix(parts) ==
    IF parts # <<>> /\ parts[1] = <<"/">>
    THEN <<"/">> \o Join(<<"/">>, Tail(parts))
    ELSE Join(<<"/">>, parts)

\* _cursor_path, with the project root that _find_project_root returns.
cursor_path(cursor, root) ==
    IF cursor.file = None THEN None
    ELSE LET path == cursor.file[1]
             under_root == /\ Len(root) <= Len(path)
                           /\ SubSeq(path, 1, Len(root)) = root
             rel == as_posix(SubSeq(path, Len(root) + 1, Len(path)))
             src == {i \in DOMAIN path : path[i] = <<"s", "r", "c">>}
         IN  IF under_root /\ StartsWith(rel, <<"s", "r", "c", "/">>) THEN Some(rel)
             ELSE IF src # {}
             THEN Some(as_posix(SubSeq(path,
                                       CHOOSE i \in src : \A j \in src : i <= j,
                                       Len(path))))
             ELSE Some(as_posix(path))

QualifiedKinds ==
    {"NAMESPACE", "STRUCT_DECL", "CLASS_DECL", "ENUM_DECL", "FUNCTION_DECL"}

\* _qualified_name: scope holds the semantic parents, outermost first.
qualified_name(cursor, scope) ==
    LET chain == scope \o <<cursor>>
        named(c) == c.spelling # <<>> /\ c.kind \in QualifiedKinds
        kept == SelectSeq(chain, named)
    IN  IF kept = <<>> THEN None
        ELSE Some(Join(<<":", ":">>, [i \in DOMAIN kept |-> kept[i].spelling]))

struct_from_cursor(cursor, scope, name_override) ==
    LET is_field(c) == c.kind = "FIELD_DECL"
        decls == SelectSeq(cursor.children, is_field)
    IN  IRStruct(NameOr(name_override, cursor.spelling),
                 [i \in DOMAIN decls |->
                    IRField(decls[i].spelling,
                            type_from_clang(decls[i].type[1]))],
                 qualified_name(cursor, scope))

enum_from_cursor(cursor, scope, name_override) ==
    LET is_value(c) == c.kind = "ENUM_CONSTANT_DECL"
        decls == SelectSeq(cursor.children, is_value)
    IN  IREnum(NameOr(name_override, cursor.spelling),
               [i \in DOMAIN decls |->
                  IREnumValue(decls[i].spelling, decls[i].enum_value)],
               cursor.is_scoped_enum,
               qualified_name(cursor, scope))

arguments_of(cursor) ==
    [i \in DOMAIN cursor.arguments |->
        IRParam(cursor.arguments[i].spelling,
                type_from_clang(cursor.arguments[i].type[1]), FALSE, None)]

\* str(access_specifier).split(".")[-1].lower()
access_name(cursor) ==
    CASE cursor.access_specifier = "PUBLIC" -> Some("public")
      [] cursor.access_specifier = "PROTECTED" -> Some("protected")
      [] cursor.access_specifier = "PRIVATE" -> Some("private")
      [] OTHER -> Some("invalid")

method_from_cursor(cursor, kind) ==
    IRMethod(cursor.spelling, type_from_clang(cursor.result_type[1]),
             arguments_of(cursor), kind, cursor.is_static_method,
             cursor.is_const_method, access_name(cursor),
             cursor.is_function_variadic)

is_operator(name) == StartsWith(name, <<"o", "p", "e", "r", "a", "t", "o", "r">>)

\* Mutant of is_cpp_record: a base specifier does not count.
is_cpp_record_without_bases(node) ==
    \E i \in DOMAIN node.children :
        node.children[i].kind \in {"CXX_METHOD", "CONSTRUCTOR", "DESTRUCTOR"}

is_cpp_record(node) ==
    \E i \in DOMAIN node.children :
        node.children[i].kind \in
            {"CXX_METHOD", "CONSTRUCTOR", "DESTRUCTOR", "CXX_BASE_SPECIFIER"}

\* The members loop of a C++ record (the same for STRUCT_DECL and
\* CLASS_DECL): what one child adds to bases, fields and methods.
class_member(child, name, allow, deny) ==
    LET nothing == [bases |-> <<>>, fields |-> <<>>, methods |-> <<>>]
        public == child.access_specifier = "PUBLIC"
    IN  CASE child.kind = "CXX_BASE_SPECIFIER" ->
                IF child.type[1].spelling # <<>>
                THEN [nothing EXCEPT !.bases = <<child.type[1].spelling>>]
                ELSE nothing
          [] child.kind = "FIELD_DECL" ->
                IF /\ public
                   /\ child.spelling # <<>>
                   /\ passes_name_filters(child.spelling, allow, deny)
                THEN [nothing EXCEPT !.fields =
                        <<IRField(child.spelling,
                                  type_from_clang(child.type[1]))>>]
                ELSE nothing
          [] child.kind = "CXX_METHOD" ->
                IF /\ public
                   /\ child.spelling # <<>>
                   /\ ~is_operator(child.spelling)
                   /\ passes_name_filters(child.spelling, allow, deny)
                THEN [nothing EXCEPT !.methods =
                        <<method_from_cursor(child, "method")>>]
                ELSE nothing
          [] child.kind = "CONSTRUCTOR" ->
                IF public /\ passes_name_filters(name, allow, deny)
                THEN [nothing EXCEPT !.methods =
                        <<[method_from_cursor(child, "constructor") EXCEPT
                             !.name = name,
                             !.return_type = IRKind("void", <<>>)]>>]
                ELSE nothing
          [] child.kind = "DESTRUCTOR" ->
                IF public /\ passes_name_filters(name, allow, deny)
                THEN [nothing EXCEPT !.methods =
                        <<[method_from_cursor(child, "destructor") EXCEPT
                             !.name = <<"~">> \o name,
                             !.return_type = IRKind("void", <<>>)]>>]
                ELSE nothing
          [] OTHER -> nothing

class_from_cursor(cursor, scope, allow, deny) ==
    LET members == [i \in DOMAIN cursor.children |->
                       class_member(cursor.children[i], cursor.spelling,
                                    allow, deny)]
    IN  IRClass(cursor.spelling,
                Join(<<>>, [i \in DOMAIN members |-> members[i].fields]),
                Join(<<>>, [i \in DOMAIN members |-> members[i].methods]),
                Join(<<>>, [i \in DOMAIN members |-> members[i].bases]),
                qualified_name(cursor, scope))

\* str.isdigit() on ASCII text
isdigit(s) == s # <<>> /\ \A i \in DOMAIN s : IsDigit(s[i])

\* int(s) for a string of decimal digits
RECURSIVE int_of(_)
int_of(s) ==
    IF s = <<>> THEN 0
    ELSE 10 * int_of(Upto(s, Len(s) - 1)) + (IndexIn(s[Len(s)], Digits) - 1)

HexDigits == <<"0", "1", "2", "3", "4", "5", "6", "7", "8", "9", "a", "b", "c", "d", "e", "f">>

\* int(s, 16) for a string of hexadecimal digits
RECURSIVE int16_of(_)
int16_of(s) ==
    IF s = <<>> THEN 0
    ELSE 16 * int16_of(Upto(s, Len(s) - 1))
         + (IndexIn(LowerChar(s[Len(s)]), HexDigits) - 1)

\* s.replace(".", "", 1)
without_first_dot(s) ==
    LET dots == {i \in DOMAIN s : s[i] = "."}
    IN  IF dots = {} THEN s
        ELSE LET k == CHOOSE i \in dots : \A j \in dots : i <= j
             IN  SubSeq(s, 1, k - 1) \o SubSeq(s, k + 1, Len(s))

\* s.strip(c)
strip_char(s, c) ==
    LET keep == {i \in DOMAIN s : s[i] # c}
    IN  IF keep = {} THEN <<>>
        ELSE SubSeq(s, CHOOSE i \in keep : \A j \in keep : i <= j,
                    Max(keep))

\* _parse_macro_value.  The value of a constant is tagged with its Python
\* type: [int |-> n], [float |-> text of the token] or [str |-> s].
parse_macro_value(value) ==
    IF isdigit(value) THEN Some(<<IRKind("int32", <<>>), [int |-> int_of(value)]>>)
    ELSE IF StartsWith(value, <<"0", "x">>) \/ StartsWith(value, <<"0", "X">>)
    THEN IF /\ Len(value) > 2
            /\ \A i \in 3..Len(value) :
                   LowerChar(value[i]) \in Range(HexDigits)
         THEN Some(<<IRKind("int32", <<>>),
                     [int |-> int16_of(From(value, 2))]>>)
         ELSE None
    ELSE IF isdigit(without_first_dot(value))
    THEN Some(<<IRKind("float64", <<>>), [float |-> value]>>)
    ELSE IF StartsWith(value, <<"\"">>) /\ EndsWith(value, <<"\"">>)
    THEN Some(<<IRKind("cstring", <<>>),
                [str |-> strip_char(value, "\"")]>>)
    ELSE None

\* _visit: the <<path, item>> pairs that the visit of one cursor appends to
\* the buckets, in the order of the appends.
RECURSIVE visit(_, _, _)
visit(cursor, scope, env) ==
    LET name == cursor.spelling
        passes == name # <<>> /\ passes_name_filters(name, env.allow, env.deny)
        bucket(c) == NameOr(cursor_path(c, env.root), <<"u", "n", "k", "n", "o", "w", "n">>)
        decl == cursor.declaration
    IN  IF cursor.file = None THEN <<>>
        ELSE IF is_excluded(cursor, env.exclude) THEN <<>>
        ELSE IF is_ignored(cursor) THEN <<>>
        ELSE
        CASE cursor.kind \in {"NAMESPACE", "LINKAGE_SPEC", "UNEXPOSED_DECL"} ->
                Join(<<>>, [i \in DOMAIN cursor.children |->
                               visit(cursor.children[i],
                                     scope \o <<cursor>>, env)])
          [] cursor.kind = "STRUCT_DECL" /\ cursor.is_definition ->
                IF ~passes THEN <<>>
                ELSE IF is_cpp_record(cursor)
                THEN <<<<bucket(cursor),
                         class_from_cursor(cursor, scope, env.allow,
                                           env.deny)>>>>
                ELSE <<<<bucket(cursor),
                         struct_from_cursor(cursor, scope, None)>>>>
          [] cursor.kind = "CLASS_DECL" /\ cursor.is_definition ->
                IF ~passes THEN <<>>
                ELSE <<<<bucket(cursor),
                         class_from_cursor(cursor, scope, env.allow,
                                           env.deny)>>>>
          [] cursor.kind = "ENUM_DECL" ->
                IF ~passes THEN <<>>
                ELSE <<<<bucket(cursor),
                         enum_from_cursor(cursor, scope, None)>>>>
          [] cursor.kind = "FUNCTION_DECL" ->
                IF ~passes \/ is_operator(name) THEN <<>>
                ELSE <<<<bucket(cursor),
                         IRFunction(name,
                                    Some(type_from_clang(cursor.result_type[1])),
                                    arguments_of(cursor), None,
                                    cursor.is_function_variadic,
                                    qualified_name(cursor, scope))>>>>
          [] cursor.kind = "TYPEDEF_DECL" ->
                IF ~passes THEN <<>>
                ELSE IF /\ decl # None
                        /\ decl[1].kind = "STRUCT_DECL"
                        /\ decl[1].is_definition
                        /\ decl[1].spelling = <<>>
                THEN <<<<bucket(decl[1]),
                         struct_from_cursor(decl[1], scope, Some(name))>>>>
                ELSE IF /\ decl # None
                        /\ decl[1].kind = "ENUM_DECL"
                        /\ decl[1].spelling = <<>>
                THEN <<<<bucket(decl[1]),
                         enum_from_cursor(decl[1], scope, Some(name))>>>>
                ELSE <<<<bucket(cursor),
                         IRAlias(name,
                                 Some(type_from_clang(
                                        cursor.underlying_typedef_type[1])))>>>>
          [] cursor.kind = "MACRO_DEFINITION" ->
                IF name = <<>> \/ Len(cursor.tokens) # 2 THEN <<>>
                ELSE IF ~passes_name_filters(cursor.tokens[1], env.allow,
                                             env.deny)
                THEN <<>>
                ELSE LET parsed == parse_macro_value(cursor.tokens[2])
                     IN  IF parsed = None THEN <<>>
                         ELSE <<<<bucket(cursor),
                                  IRConstant(cursor.tokens[1],
                                             Some(parsed[1][1]),
                                             parsed[1][2])>>>>
          [] OTHER -> <<>>

\* Mutant of sort_by_name: a sort by name that is not stable (of the items
\* of the least name the last one comes first).
RECURSIVE sort_by_name_unstable(_)
sort_by_name_unstable(items) ==
    IF items = <<>> THEN <<>>
    ELSE LET k == CHOOSE i \in DOMAIN items :
                     /\ \A j \in DOMAIN items :
                            ~StrLess(items[j].name, items[i].name)
                     /\ \A j \in (i + 1)..Len(items) :
                            items[j].name # items[i].name
         IN  <<items[k]>>
             \o sort_by_name_unstable(SubSeq(items, 1, k - 1)
                                      \o SubSeq(items, k + 1, Len(items)))

\* list.sort(key=lambda item: item.name): a stable sort by name.
RECURSIVE sort_by_name(_)
sort_by_name(items) ==
    IF items = <<>> THEN <<>>
    ELSE LET k == CHOOSE i \in DOMAIN items :
                     /\ \A j \in DOMAIN items :
                            ~StrLess(items[j].name, items[i].name)
                     /\ \A j \in 1..(i - 1) : items[j].name # items[i].name
         IN  <<items[k]>>
             \o sort_by_name(SubSeq(items, 1, k - 1)
                             \o SubSeq(items, k + 1, Len(items)))

\* normalize_translation_unit: every top-level cursor is visited, each item
\* goes to the bucket of its path, and every bucket is sorted by name.
normalize_translation_unit(tu, env) ==
    LET appends == Join(<<>>, [i \in DOMAIN tu |-> visit(tu[i], <<>>, env)])
        paths == {appends[i][1] : i \in DOMAIN appends}
        of(path) ==
            LET mine == SelectSeq(appends, LAMBDA a : a[1] = path)
            IN  [i \in DOMAIN mine |-> mine[i][2]]
    IN  IRModule([path \in paths |-> IRFile(sort_by_name(of(path)))])

----------------------------------------------------------------------------
(* codegen/naming.py *)

\* s[:j] for any integer j (a negative j counts from the end; -0 is 0).
SliceTo(s, j) == IF j < 0 THEN Upto(s, Max({Len(s) + j, 0})) ELSE Upto(s, j)

\* s with "_" put in front of every position of the set marks.
InsertUnderscores(s, marks) ==
    Join(<<>>, [i \in DOMAIN s |->
                    IF i \in marks THEN <<"_", s[i]>> ELSE <<s[i]>>])

\* re.sub(r"([A-Z]+)([A-Z][a-z])", r"\1_\2", s): a match is a run of two or
\* more capitals followed by a small letter, and the "_" goes in front of
\* the run's last capital.
sub_acronyms(s) ==
    InsertUnderscores(s, {k \in 2..(Len(s) - 1) :
        IsUpper(s[k - 1]) /\ IsUpper(s[k]) /\ IsLower(s[k + 1])})

\* re.sub(r"([a-z\d])([A-Z])", r"\1_\2", s)
sub_camel(s) ==
    InsertUnderscores(s, {k \in 2..Len(s) :
        (IsLower(s[k - 1]) \/ IsDigit(s[k - 1])) /\ IsUpper(s[k])})

\* re.sub(r"[-\s]+", "_", s)
RECURSIVE sub_hyphens(_)
sub_hyphens(s) ==
    IF s = <<>> THEN <<>>
    ELSE IF s[1] = "-" \/ IsSpace(s[1])
    THEN LET rest == Tail(s)
             run == {n \in 0..Len(rest) :
                        \A i \in 1..n : rest[i] = "-" \/ IsSpace(rest[i])}
         IN  <<"_">> \o sub_hyphens(From(rest, Max(run)))
    ELSE <<s[1]>> \o sub_hyphens(Tail(s))

to_snake_case(s) == Lower(sub_hyphens(sub_camel(sub_acronyms(s))))

\* str.title(): a letter is a capital after a non-letter, small after a letter.
Title(p) ==
    [i \in DOMAIN p |->
        IF IsUpper(p[i]) \/ IsLower(p[i])
        THEN IF i > 1 /\ (IsUpper(p[i - 1]) \/ IsLower(p[i - 1]))
             THEN LowerChar(p[i]) ELSE UpperChar(p[i])
        ELSE p[i]]

to_camel_case(s) ==
    LET parts == Split(to_snake_case(s), "_")
    IN  Lower(parts[1])
        \o Join(<<>>, [i \in 1..(Len(parts) - 1) |-> Title(parts[i + 1])])

to_pascal_case(s) ==
    LET parts == Split(to_snake_case(s), "_")
    IN  Join(<<>>, [i \in DOMAIN parts |-> Title(parts[i])])

to_screaming_snake_case(s) == Upper(to_snake_case(s))

to_kebab_case(s) ==
    LET t == to_snake_case(s)
    IN  [i \in DOMAIN t |-> IF t[i] = "_" THEN "-" ELSE t[i]]

apply_style(name, style) ==
    CASE style = "original" \/ style = "" -> name
      [] style = "snake_case" -> to_snake_case(name)
      [] style = "camel_case" -> to_camel_case(name)
      [] style = "pascal_case" -> to_pascal_case(name)
      [] style = "screaming_snake_case" -> to_screaming_snake_case(name)
      [] style = "kebab_case" -> to_kebab_case(name)
      [] OTHER -> name

\* sorted(affixes, key=len, reverse=True): longest first, equal lengths in
\* the order of the list.
RECURSIVE sorted_longest_first(_)
sorted_longest_first(affixes) ==
    IF affixes = <<>> THEN <<>>
    ELSE LET longest == Max({Len(affixes[i]) : i \in DOMAIN affixes})
             k == CHOOSE i \in DOMAIN affixes :
                     /\ Len(affixes[i]) = longest
                     /\ \A j \in 1..(i - 1) : Len(affixes[j]) # longest
         IN  <<affixes[k]>>
             \o sorted_longest_first(SubSeq(affixes, 1, k - 1)
                                     \o SubSeq(affixes, k + 1, Len(affixes)))

\* The first loop of strip_affixes: the first prefix of the list that the
\* name starts with is cut off, and the loop ends.
RECURSIVE strip_first_prefix(_, _)
strip_first_prefix(result, prefixes) ==
    IF prefixes = <<>> THEN result
    ELSE IF StartsWith(result, Head(prefixes))
    THEN From(result, Len(Head(prefixes)))
    ELSE strip_first_prefix(result, Tail(prefixes))

\* The second loop of strip_affixes: result[: -len(suffix)] for the first
\* suffix of the list that the name ends with.
RECURSIVE strip_first_suffix(_, _)
strip_first_suffix(result, suffixes) ==
    IF suffixes = <<>> THEN result
    ELSE IF EndsWith(result, Head(suffixes))
    THEN SliceTo(result, 0 - Len(Head(suffixes)))
    ELSE strip_first_suffix(result, Tail(suffixes))

strip_affixes(name, prefixes, suffixes) ==
    strip_first_suffix(
        strip_first_prefix(name, sorted_longest_first(prefixes)),
        sorted_longest_first(suffixes))

add_affixes(name, prefix, suffix) == prefix \o name \o suffix

\* Mutant of transform_name: the style is applied before the affixes are
\* stripped.
transform_name_style_first(name, style, strip_prefixes, strip_suffixes, add_prefix, add_suffix) ==
    add_affixes(
        strip_affixes(apply_style(name, style), strip_prefixes, strip_suffixes),
        add_prefix, add_suffix)

transform_name(name, style, strip_prefixes, strip_suffixes, add_prefix, add_suffix) ==
    add_affixes(
        apply_style(strip_affixes(name, strip_prefixes, strip_suffixes), style),
        add_prefix, add_suffix)

----------------------------------------------------------------------------
(* codegen/context.py: TypeMapper.map_type, TypeMapper._lookup_type *)

MappedType(mapped_str, raw, kind, name, is_pointer, is_array, is_void, is_const, inner, element, length) ==
    [mapped |-> mapped_str, raw |-> raw, kind |-> kind, name |-> name,
     is_pointer |-> is_pointer, is_array |-> is_array, is_void |-> is_void,
     is_const |-> is_const, inner |-> inner, element |-> element,
     length |-> length]

NamedKinds == {"named", "struct", "enum", "class", "typedef", "elaborated"}

\* Mutant of lookup_type: the table is indexed without the membership test,
\* so a name the table lacks raises KeyError.
lookup_type_unchecked(cfg, type_name, is_const) ==
    IF is_const /\ (<<"c", "o", "n", "s", "t", " ">> \o type_name) \in DOMAIN cfg.types
    THEN Ok(cfg.types[<<"c", "o", "n", "s", "t", " ">> \o type_name])
    ELSE IF type_name \in DOMAIN cfg.types
    THEN Ok(cfg.type_prefix \o cfg.types[type_name] \o cfg.type_suffix)
    ELSE Raised("KeyError")

lookup_type(cfg, type_name, is_const) ==
    IF is_const /\ (<<"c", "o", "n", "s", "t", " ">> \o type_name) \in DOMAIN cfg.types
    THEN Ok(cfg.types[<<"c", "o", "n", "s", "t", " ">> \o type_name])
    ELSE IF type_name \in DOMAIN cfg.types
    THEN Ok(cfg.type_prefix \o cfg.types[type_name] \o cfg.type_suffix)
    ELSE IF cfg.passthrough_unknown
    THEN Ok(cfg.type_prefix \o type_name \o cfg.type_suffix)
    ELSE IF Truthy(cfg.default_type)
    THEN Ok(cfg.default_type[1])
    ELSE Ok(type_name)

\* The lookup key of a pointer, from its pointee (lines 270-280).
ptr_key(inner_ir) ==
    IF inner_ir # None
    THEN IF inner_ir[1].kind = "void" THEN Some(<<"v", "o", "i", "d", "*">>)
         ELSE IF inner_ir[1].kind = "primitive" /\ Truthy(inner_ir[1].name)
         THEN Some(inner_ir[1].name[1] \o <<"*">>)
         ELSE IF Truthy(inner_ir[1].name)
         THEN Some(inner_ir[1].name[1] \o <<"*">>)
         ELSE None
    ELSE Some(<<"v", "o", "i", "d", "*">>)

\* Mutant of pointer_mapped: for a const pointer the unqualified key is
\* tried before the const key.
pointer_mapped_unqualified_first(cfg, key, is_const, inner_str) ==
    IF is_const /\ Truthy(key)
    THEN IF key[1] \in DOMAIN cfg.types
         THEN cfg.types[key[1]]
         ELSE IF (<<"c", "o", "n", "s", "t", " ">> \o key[1]) \in DOMAIN cfg.types
         THEN cfg.types[<<"c", "o", "n", "s", "t", " ">> \o key[1]]
         ELSE IF Truthy(cfg.void_pointer_type) /\ key[1] = <<"v", "o", "i", "d", "*">>
         THEN cfg.void_pointer_type[1]
         ELSE IF Truthy(cfg.const_char_pointer_type) /\ key[1] = <<"c", "h", "a", "r", "*">>
         THEN cfg.const_char_pointer_type[1]
         ELSE Format(cfg.const_pointer_format, [inner |-> inner_str])
    ELSE IF Truthy(key) /\ key[1] \in DOMAIN cfg.types
    THEN cfg.types[key[1]]
    ELSE IF Truthy(cfg.void_pointer_type) /\ key = Some(<<"v", "o", "i", "d", "*">>)
    THEN cfg.void_pointer_type[1]
    ELSE Format(cfg.pointer_format, [inner |-> inner_str])

\* The mapped string of a pointer (lines 282-299).
pointer_mapped(cfg, key, is_const, inner_str) ==
    IF is_const /\ Truthy(key)
    THEN IF (<<"c", "o", "n", "s", "t", " ">> \o key[1]) \in DOMAIN cfg.types
         THEN cfg.types[<<"c", "o", "n", "s", "t", " ">> \o key[1]]
         ELSE IF key[1] \in DOMAIN cfg.types
         THEN cfg.types[key[1]]
         ELSE IF Truthy(cfg.void_pointer_type) /\ key[1] = <<"v", "o", "i", "d", "*">>
         THEN cfg.void_pointer_type[1]
         ELSE IF Truthy(cfg.const_char_pointer_type) /\ key[1] = <<"c", "h", "a", "r", "*">>
         THEN cfg.const_char_pointer_type[1]
         ELSE Format(cfg.const_pointer_format, [inner |-> inner_str])
    ELSE IF Truthy(key) /\ key[1] \in DOMAIN cfg.types
    THEN cfg.types[key[1]]
    ELSE IF Truthy(cfg.void_pointer_type) /\ key = Some(<<"v", "o", "i", "d", "*">>)
    THEN cfg.void_pointer_type[1]
    ELSE Format(cfg.pointer_format, [inner |-> inner_str])

RECURSIVE map_type(_, _)
map_type(cfg, o) ==
    IF o = None
    THEN Ok(MappedType(<<"v", "o", "i", "d">>, IRKind("void", <<>>), "void", None,
                       FALSE, FALSE, TRUE, FALSE, None, None, None))
    ELSE
    LET t == o[1]
        kind == t.kind
        is_const == "const" \in Range(t.qualifiers)
        \* the mapping of the pointee / referee (evaluated only when present)
        ri == map_type(cfg, t.to)
        inner_mapped == IF t.to # None THEN Some(ri.val) ELSE None
        inner_str == IF t.to # None THEN ri.val.mapped ELSE <<"v", "o", "i", "d">>
        \* the mapping of the array element
        re == map_type(cfg, t.element)
        element_mapped == IF t.element # None THEN Some(re.val) ELSE None
        element_str == IF t.element # None THEN re.val.mapped ELSE <<"v", "o", "i", "d">>
        length == IF t.length # None THEN t.length[1] ELSE 0
        named(type_name, name) ==
            LET r == lookup_type(cfg, type_name, is_const)
            IN  IF r.exc # "" THEN r
                ELSE Ok(MappedType(r.val, t, kind, name, FALSE, FALSE, FALSE,
                                   is_const, None, None, None))
    IN  CASE kind = "void" ->
                Ok(MappedType(Get(cfg.types, <<"v", "o", "i", "d">>, <<"v", "o", "i", "d">>), t, kind, None,
                              FALSE, FALSE, TRUE, is_const, None, None, None))
          [] kind = "pointer" ->
                IF t.to # None /\ ri.exc # "" THEN ri
                ELSE Ok(MappedType(
                        pointer_mapped(cfg, ptr_key(t.to), is_const, inner_str),
                        t, kind, None, TRUE, FALSE, FALSE, is_const,
                        inner_mapped, None, None))
          [] kind = "array" ->
                IF t.element # None /\ re.exc # "" THEN re
                ELSE Ok(MappedType(
                        Format(cfg.array_format,
                               [element |-> element_str,
                                length |-> IntStr(length)]),
                        t, kind, None, FALSE, TRUE, FALSE, is_const,
                        None, element_mapped, t.length))
          [] kind = "reference" ->
                IF t.to # None /\ ri.exc # "" THEN ri
                ELSE Ok(MappedType(
                        Format(cfg.reference_format, [inner |-> inner_str]),
                        t, kind, None, FALSE, FALSE, FALSE, is_const,
                        inner_mapped, None, None))
          [] kind = "primitive" ->
                named(NameOr(t.name, <<"i", "n", "t">>), Some(NameOr(t.name, <<"i", "n", "t">>)))
          [] kind \in NamedKinds ->
                named(NameOr(t.name, <<"u", "n", "k", "n", "o", "w", "n">>),
                      Some(NameOr(t.name, <<"u", "n", "k", "n", "o", "w", "n">>)))
          [] kind = "function_pointer" ->
                Ok(MappedType(Get(cfg.types, <<"f", "u", "n", "c", "t", "i", "o", "n", "_", "p", "o", "i", "n", "t", "e", "r">>,
                                  <<"F", "u", "n", "c", "t", "i", "o", "n", "P", "o", "i", "n", "t", "e", "r">>),
                              t, kind, None, FALSE, FALSE, FALSE, is_const,
                              None, None, None))
          [] OTHER -> named(NameOr(t.name, KindName[kind]), t.name)

----------------------------------------------------------------------------
(* codegen/context.py: TypeMapper.__init__ and the mapping of callables *)

\* NameTransformer._transform
namer_transform(naming, name, style) ==
    transform_name(name, style, naming.strip_prefixes, naming.strip_suffixes,
                   naming.add_prefix, naming.add_suffix)

\* TypeMapper.__init__: the option tables, rules without a match or a type
\* dropped.
TypeMapper(config) ==
    [config |-> config,
     namer |-> config.naming,
     symbol_overrides |-> config.options.symbol_overrides,
     singleton_classes |-> Range(config.options.singleton_classes),
     cstring_free_symbols |-> config.options.cstring_free_symbols,
     bridge_types |-> config.options.bridge_types,
     api_type_exact |-> config.options.api_type_rules.exact,
     api_type_contains |->
        LET keep(item) == item.match # <<>> /\ item.type # <<>>
        IN  SelectSeq(config.options.api_type_rules.contains, keep),
     return_bridge_map |-> config.options.return_bridge_map,
     param_bridges |-> config.options.param_bridges]

\* map_type as the mapper's other methods use it: it has no raising path.
mapped_type_of(self, o) == map_type(self.config, o).val

api_void_type(self) == Get(self.config.types, <<"v", "o", "i", "d">>, <<"v", "o", "i", "d">>)

\* The target of the first `contains` rule whose match occurs in the string.
RECURSIVE first_containing(_, _)
first_containing(rules, text) ==
    IF rules = <<>> THEN None
    ELSE IF Contains(text, Head(rules).match) THEN Some(Head(rules).type)
    ELSE first_containing(Tail(rules), text)

api_type(self, mapped_type) ==
    IF mapped_type = None THEN api_void_type(self)
    ELSE LET m == mapped_type[1].mapped
             hit == first_containing(self.api_type_contains, m)
         IN  IF m \in DOMAIN self.api_type_exact THEN self.api_type_exact[m]
             ELSE IF hit # None THEN hit[1]
             ELSE m

\* Mutant of return_bridge: a void return is looked up like any other.
return_bridge_unchecked(self, api_t, return_type) ==
    Get(self.return_bridge_map, api_t, <<"p", "l", "a", "i", "n">>)

return_bridge(self, api_t, return_type) ==
    IF return_type = None \/ return_type[1].kind = "void" THEN <<"v", "o", "i", "d">>
    ELSE Get(self.return_bridge_map, api_t, <<"p", "l", "a", "i", "n">>)

\* Mutant of symbol_for_function: the fallback is made of the name under
\* the naming rules of the configuration.
symbol_for_function_styled(self, ir_func) ==
    Get(self.symbol_overrides, NameOr(ir_func.qualified_name, ir_func.name),
        <<"n", "a", "t", "i", "v", "e", "_">> \o to_snake_case(
            namer_transform(self.namer, ir_func.name,
                            self.namer.function_name)))

symbol_for_function(self, ir_func) ==
    Get(self.symbol_overrides, NameOr(ir_func.qualified_name, ir_func.name),
        <<"n", "a", "t", "i", "v", "e", "_">> \o to_snake_case(ir_func.name))

symbol_for_method(self, ir_class, ir_method) ==
    Get(self.symbol_overrides,
        NameOr(ir_class.qualified_name, ir_class.name) \o <<":", ":">>
            \o ir_method.name,
        <<"n", "a", "t", "i", "v", "e", "_">> \o to_snake_case(ir_class.name) \o <<"_">>
            \o to_snake_case(ir_method.name))

symbol_for_singleton(self, ir_class) ==
    Get(self.symbol_overrides,
        NameOr(ir_class.qualified_name, ir_class.name) \o <<":", ":", "G", "e", "t", "I", "n", "s", "t", "a", "n", "c", "e">>,
        <<"n", "a", "t", "i", "v", "e", "_">> \o to_snake_case(ir_class.name) \o <<"_", "g", "e", "t", "_", "i", "n", "s", "t", "a", "n", "c", "e">>)

default_bridge_type(self, key) == Get(self.bridge_types, key, <<>>)

\* Mutant of param_call_args_from: the last rule that applies gives the
\* arguments.
RECURSIVE param_call_args_from_last(_, _, _, _)
param_call_args_from_last(self, bridges, param, symbol) ==
    IF bridges = <<>> THEN <<param.name>>
    ELSE LET bridge == bridges[Len(bridges)]
             others == SubSeq(bridges, 1, Len(bridges) - 1)
             bridge_api_type ==
                IF Truthy(bridge.type_key)
                THEN default_bridge_type(self, bridge.type_key[1])
                ELSE bridge.api_type
             suffixes == bridge.symbol_suffixes
         IN  IF bridge_api_type # <<>> /\ param.api_type # bridge_api_type
             THEN param_call_args_from_last(self, others, param, symbol)
             ELSE IF /\ suffixes # <<>>
                     /\ ~\E i \in DOMAIN suffixes : EndsWith(symbol, suffixes[i])
             THEN param_call_args_from_last(self, others, param, symbol)
             ELSE IF bridge.args # <<>>
             THEN [i \in DOMAIN bridge.args |->
                      Format(bridge.args[i], [name |-> param.name])]
             ELSE param_call_args_from_last(self, others, param, symbol)

\* The loop of _param_call_args over the bridges that are left.
RECURSIVE param_call_args_from(_, _, _, _)
param_call_args_from(self, bridges, param, symbol) ==
    IF bridges = <<>> THEN <<param.name>>
    ELSE LET bridge == Head(bridges)
             bridge_api_type ==
                IF Truthy(bridge.type_key)
                THEN default_bridge_type(self, bridge.type_key[1])
                ELSE bridge.api_type
             suffixes == bridge.symbol_suffixes
         IN  IF bridge_api_type # <<>> /\ param.api_type # bridge_api_type
             THEN param_call_args_from(self, Tail(bridges), param, symbol)
             ELSE IF /\ suffixes # <<>>
                     /\ ~\E i \in DOMAIN suffixes : EndsWith(symbol, suffixes[i])
             THEN param_call_args_from(self, Tail(bridges), param, symbol)
             ELSE IF bridge.args # <<>>
             THEN [i \in DOMAIN bridge.args |->
                      Format(bridge.args[i], [name |-> param.name])]
             ELSE param_call_args_from(self, Tail(bridges), param, symbol)

param_call_args(self, param, symbol) ==
    param_call_args_from(self, self.param_bridges, param, symbol)

\* The free symbol of the first entry, "default" aside, whose key occurs in
\* the call symbol.
RECURSIVE first_free_symbol(_, _)
first_free_symbol(entries, symbol) ==
    IF entries = <<>> THEN None
    ELSE IF /\ Head(entries)[1] # <<"d", "e", "f", "a", "u", "l", "t">>
            /\ Head(entries)[1] # <<>>
            /\ Contains(symbol, Head(entries)[1])
    THEN Some(Head(entries)[2])
    ELSE first_free_symbol(Tail(entries), symbol)

\* Mutant of string_free_symbol: a configured default wins over the keys.
string_free_symbol_default_first(self, symbol) ==
    IF self.cstring_free_symbols = <<>> THEN <<"f", "r", "e", "e", "_", "c", "_", "s", "t", "r">>
    ELSE LET hit == first_free_symbol(self.cstring_free_symbols, symbol)
             defaults == SelectSeq(self.cstring_free_symbols,
                                   LAMBDA e : e[1] = <<"d", "e", "f", "a", "u", "l", "t">>)
         IN  IF defaults # <<>> THEN defaults[1][2]
             ELSE IF hit # None THEN hit[1]
             ELSE <<"f", "r", "e", "e", "_", "c", "_", "s", "t", "r">>

string_free_symbol(self, symbol) ==
    IF self.cstring_free_symbols = <<>> THEN <<"f", "r", "e", "e", "_", "c", "_", "s", "t", "r">>
    ELSE LET hit == first_free_symbol(self.cstring_free_symbols, symbol)
             defaults == SelectSeq(self.cstring_free_symbols,
                                   LAMBDA e : e[1] = <<"d", "e", "f", "a", "u", "l", "t">>)
         IN  IF hit # None THEN hit[1]
             ELSE IF defaults # <<>> THEN defaults[1][2]
             ELSE <<"f", "r", "e", "e", "_", "c", "_", "s", "t", "r">>

\* Mutant of getter_property_name: the first remaining character keeps its
\* case.
getter_property_name_keep_case(raw_name) ==
    IF ~StartsWith(raw_name, <<"G", "e", "t">>) \/ Len(raw_name) <= 3 THEN raw_name
    ELSE From(raw_name, 3)

getter_property_name(raw_name) ==
    IF ~StartsWith(raw_name, <<"G", "e", "t">>) \/ Len(raw_name) <= 3 THEN raw_name
    ELSE LET rest == From(raw_name, 3)
         IN  Lower(Upto(rest, 1)) \o From(rest, 1)

map_field(self, ir_field) ==
    [name |-> namer_transform(self.namer, ir_field.name, self.namer.field_name),
     type |-> mapped_type_of(self, Some(ir_field.type)),
     raw |-> ir_field]

\* Mutant of map_param: raw is left at the default of the dataclass.
map_param_detached(self, ir_param) ==
    LET mapped_type == mapped_type_of(self, Some(ir_param.type))
        name == namer_transform(self.namer, ir_param.name,
                                self.namer.param_name)
    IN  [name |-> name,
         type |-> mapped_type,
         api_type |-> api_type(self, Some(mapped_type)),
         call_args |-> <<name>>,
         nullable |-> ir_param.nullable,
         direction |-> ir_param.direction,
         raw |-> None]

map_param(self, ir_param) ==
    LET mapped_type == mapped_type_of(self, Some(ir_param.type))
        name == namer_transform(self.namer, ir_param.name,
                                self.namer.param_name)
    IN  [name |-> name,
         type |-> mapped_type,
         api_type |-> api_type(self, Some(mapped_type)),
         call_args |-> <<name>>,
         nullable |-> ir_param.nullable,
         direction |-> ir_param.direction,
         raw |-> ir_param]

\* The parameters of a callable, each with the call arguments that the
\* bridges give it (the loop shared by map_function and map_method).
bridged_params(self, ir_params, call_symbol) ==
    [i \in DOMAIN ir_params |->
        LET param == map_param(self, ir_params[i])
        IN  [param EXCEPT !.call_args =
                            param_call_args(self, param, call_symbol)]]

map_function(self, ir_func) ==
    LET return_type == mapped_type_of(self, ir_func.return_type)
        api_return_type == api_type(self, Some(return_type))
        call_symbol == symbol_for_function(self, ir_func)
        params == bridged_params(self, ir_func.params, call_symbol)
        call_args == Join(<<>>, [i \in DOMAIN params |-> params[i].call_args])
        bridge == return_bridge(self, api_return_type, Some(return_type))
        api_name == namer_transform(self.namer, ir_func.name,
                                    self.namer.function_name)
    IN  [kind |-> "function",
         name |-> api_name,
         api_name |-> api_name,
         return_type |-> return_type,
         api_return_type |-> api_return_type,
         return_bridge |-> bridge,
         params |-> params,
         call_symbol |-> call_symbol,
         call_args |-> call_args,
         string_free_symbol |->
            IF bridge = <<"s", "t", "r", "i", "n", "g">> THEN string_free_symbol(self, call_symbol)
            ELSE <<>>,
         callconv |-> ir_func.callconv,
         variadic |-> ir_func.variadic,
         qualified_name |-> ir_func.qualified_name,
         raw |-> ir_func]

map_method(self, ir_method, ir_class) ==
    LET return_type == mapped_type_of(self, Some(ir_method.return_type))
        api_return_type == api_type(self, Some(return_type))
        call_symbol == symbol_for_method(self, ir_class, ir_method)
        params == bridged_params(self, ir_method.params, call_symbol)
        call_args == Join(<<>>, [i \in DOMAIN params |-> params[i].call_args])
        raw_name == ir_method.name
        skip == \/ raw_name = ir_class.name
                \/ StartsWith(raw_name, <<"~">>)
                \/ raw_name = <<"G", "e", "t", "I", "n", "s", "t", "a", "n", "c", "e">>
        is_getter == /\ StartsWith(raw_name, <<"G", "e", "t">>)
                     /\ Len(params) = 0
                     /\ return_type.kind # "void"
        is_bool_getter == /\ StartsWith(raw_name, <<"I", "s">>)
                          /\ Len(params) = 0
                          /\ Lower(api_return_type) = <<"b", "o", "o", "l">>
        bridge == return_bridge(self, api_return_type, Some(return_type))
        api_name == namer_transform(self.namer, raw_name,
                                    self.namer.method_name)
    IN  [name |-> api_name,
         raw_name |-> raw_name,
         api_name |-> api_name,
         return_type |-> return_type,
         api_return_type |-> api_return_type,
         return_bridge |-> bridge,
         params |-> params,
         call_symbol |-> call_symbol,
         call_args |-> call_args,
         string_free_symbol |->
            IF bridge = <<"s", "t", "r", "i", "n", "g">> THEN string_free_symbol(self, call_symbol)
            ELSE <<>>,
         skip |-> skip,
         is_property |-> is_getter \/ is_bool_getter,
         property_name |->
            IF is_getter THEN getter_property_name(raw_name)
            ELSE IF is_bool_getter THEN api_name
            ELSE <<>>,
         method_kind |-> ir_method.kind,
         static |-> ir_method.static,
         needs_instance_handle |-> ~ir_method.static,
         const |-> ir_method.const,
         access |-> ir_method.access,
         variadic |-> ir_method.variadic,
         raw |-> ir_method]

----------------------------------------------------------------------------
(* codegen/context.py: the mapping of items and files, build_context *)

map_struct(self, ir_struct) ==
    [kind |-> "struct",
     name |-> namer_transform(self.namer, ir_struct.name,
                              self.namer.type_name),
     fields |-> [i \in DOMAIN ir_struct.fields |->
                    map_field(self, ir_struct.fields[i])],
     qualified_name |-> ir_struct.qualified_name,
     raw |-> ir_struct]

map_enum(self, ir_enum) ==
    [kind |-> "enum",
     name |-> namer_transform(self.namer, ir_enum.name, self.namer.enum_name),
     values |-> [i \in DOMAIN ir_enum.values |->
                    [name |-> namer_transform(self.namer,
                                              ir_enum.values[i].name,
                                              self.namer.enum_value_name),
                     value |-> ir_enum.values[i].value]],
     scoped |-> ir_enum.scoped,
     qualified_name |-> ir_enum.qualified_name,
     raw |-> ir_enum]

map_alias(self, ir_alias) ==
    [kind |-> "alias",
     name |-> namer_transform(self.namer, ir_alias.name,
                              self.namer.alias_name),
     target |-> mapped_type_of(self, ir_alias.target),
     raw |-> ir_alias]

\* Mutant of map_class: the methods are mapped against the class under its
\* mapped name.
map_class_renamed(self, ir_class) ==
    LET class_name == namer_transform(self.namer, ir_class.name,
                                      self.namer.class_name)
        is_singleton == class_name \in self.singleton_classes
    IN  [kind |-> "class",
         name |-> class_name,
         fields |-> [i \in DOMAIN ir_class.fields |->
                        map_field(self, ir_class.fields[i])],
         methods |-> [i \in DOMAIN ir_class.methods |->
                        map_method(self, ir_class.methods[i],
                                   [ir_class EXCEPT !.name = class_name])],
         bases |-> ir_class.bases,
         handle_alias |-> <<"n", "a", "t", "i", "v", "e", "_">> \o to_snake_case(ir_class.name) \o <<"_", "t">>,
         is_singleton |-> is_singleton,
         singleton_symbol |->
            IF is_singleton THEN symbol_for_singleton(self, ir_class)
            ELSE <<>>,
         qualified_name |-> ir_class.qualified_name,
         raw |-> ir_class]

map_class(self, ir_class) ==
    LET class_name == namer_transform(self.namer, ir_class.name,
                                      self.namer.class_name)
        is_singleton == class_name \in self.singleton_classes
    IN  [kind |-> "class",
         name |-> class_name,
         fields |-> [i \in DOMAIN ir_class.fields |->
                        map_field(self, ir_class.fields[i])],
         methods |-> [i \in DOMAIN ir_class.methods |->
                        map_method(self, ir_class.methods[i], ir_class)],
         bases |-> ir_class.bases,
         handle_alias |-> <<"n", "a", "t", "i", "v", "e", "_">> \o to_snake_case(ir_class.name) \o <<"_", "t">>,
         is_singleton |-> is_singleton,
         singleton_symbol |->
            IF is_singleton THEN symbol_for_singleton(self, ir_class)
            ELSE <<>>,
         qualified_name |-> ir_class.qualified_name,
         raw |-> ir_class]

map_constant(self, ir_const) ==
    [kind |-> "constant",
     name |-> namer_transform(self.namer, ir_const.name,
                              self.namer.constant_name),
     type |-> mapped_type_of(self, ir_const.type),
     value |-> ir_const.value,
     raw |-> ir_const]

\* The isinstance chain of map_item: an item is of the class that its kind
\* names.
map_item(self, ir_item) ==
    CASE ir_item.kind = "struct" -> map_struct(self, ir_item)
      [] ir_item.kind = "enum" -> map_enum(self, ir_item)
      [] ir_item.kind = "alias" -> map_alias(self, ir_item)
      [] ir_item.kind = "function" -> map_function(self, ir_item)
      [] ir_item.kind = "class" -> map_class(self, ir_item)
      [] ir_item.kind = "constant" -> map_constant(self, ir_item)

map_file(self, ir_file) ==
    [items |-> [i \in DOMAIN ir_file.items |->
                    map_item(self, ir_file.items[i])],
     raw |-> ir_file]

\* The properties of IRFile and of MappedFile (types, enums, aliases,
\* functions, classes, constants): the items of one kind, in file order.
items_of_kind(file, kind) == SelectSeq(file.items, LAMBDA item : item.kind = kind)

\* sorted(keys) for a set of strings
RECURSIVE sorted(_)
sorted(keys) ==
    IF keys = {} THEN <<>>
    ELSE LET least == CHOOSE k \in keys : \A o \in keys : ~StrLess(o, k)
         IN  <<least>> \o sorted(keys \ {least})

\* The second loop of build_context: the lists of all items and of the
\* items of each kind, file after file in the order of sorted_paths.
context_of(module, mapping_config, sorted_paths, mapped_files) ==
    LET extend(kind) ==
            Join(<<>>, [i \in DOMAIN sorted_paths |->
                           items_of_kind(mapped_files[sorted_paths[i]], kind)])
    IN  [module |-> module,
         files |-> mapped_files,
         file_paths |-> sorted_paths,
         items |-> Join(<<>>, [i \in DOMAIN sorted_paths |->
                                  mapped_files[sorted_paths[i]].items]),
         types |-> extend("struct"),
         enums |-> extend("enum"),
         functions |-> extend("function"),
         classes |-> extend("class"),
         constants |-> extend("constant"),
         aliases |-> extend("alias"),
         mapping |-> mapping_config,
         namer |-> mapping_config.naming,
         raw |-> module]

\* s[::-1]
Reverse(s) == [i \in DOMAIN s |-> s[Len(s) + 1 - i]]

\* Mutant of build_context: the file keys are not sorted (they come in an
\* order of the dict that is not the sorted one).
build_context_unsorted(module, mapping_config) ==
    LET self == TypeMapper(mapping_config)
        files == module.files
    IN  CHOOSE context \in
            {context_of(module, mapping_config, sorted_paths, mapped_files) :
                sorted_paths \in {Reverse(sorted(DOMAIN files))},
                mapped_files \in {[path \in DOMAIN files |->
                                     map_file(self, files[path])]}} : TRUE

\* build_context: every file is mapped once, in the order of the sorted
\* keys.
build_context(module, mapping_config) ==
    LET self == TypeMapper(mapping_config)
        files == module.files
    IN  CHOOSE context \in
            {context_of(module, mapping_config, sorted_paths, mapped_files) :
                sorted_paths \in {sorted(DOMAIN files)},
                mapped_files \in {[path \in DOMAIN files |->
                                     map_file(self, files[path])]}} : TRUE

----------------------------------------------------------------------------
(* pathlib, as codegen/generator.py uses it.  A path is its root ("", "/"
   or "//") and its components. *)

\* PurePosixPath(s): empty and "." components are dropped, ".." is kept.
posix_path(s) ==
    [root |-> IF StartsWith(s, <<"/", "/">>) /\ ~StartsWith(s, <<"/", "/", "/">>) THEN <<"/", "/">>
              ELSE IF StartsWith(s, <<"/">>) THEN <<"/">>
              ELSE <<>>,
     parts |-> SelectSeq(Split(s, "/"), LAMBDA p : p # <<>> /\ p # <<".">>)]

path_parent(p) ==
    IF p.parts = <<>> THEN p
    ELSE [p EXCEPT !.parts = SubSeq(p.parts, 1, Len(p.parts) - 1)]

path_name(p) == IF p.parts = <<>> THEN <<>> ELSE p.parts[Len(p.parts)]

\* name.rfind("."), counted from 1; 0 when the name has no dot.
last_dot(name) == Max({0} \cup {i \in DOMAIN name : name[i] = "."})

\* A leading or a trailing dot starts no suffix.
path_stem(p) ==
    LET name == path_name(p)
        i == last_dot(name)
    IN  IF 1 < i /\ i < Len(name) THEN SubSeq(name, 1, i - 1) ELSE name

path_suffix(p) ==
    LET name == path_name(p)
        i == last_dot(name)
    IN  IF 1 < i /\ i < Len(name) THEN SubSeq(name, i, Len(name)) ELSE <<>>

path_str(p) ==
    IF p.root = <<>> /\ p.parts = <<>> THEN <<".">>
    ELSE p.root \o Join(<<"/">>, p.parts)

\* a / b: an absolute b replaces a.
path_join(a, b) ==
    IF b.root # <<>> THEN b
    ELSE [root |-> a.root, parts |-> a.parts \o b.parts]

----------------------------------------------------------------------------
(* The output directory tree that the generator writes: the content of
   every file and the set of directories, each under the path that the
   file system resolves it to. *)

\* The components with every ".." taken against the component before it.
RECURSIVE resolve_parts(_, _, _)
resolve_parts(parts, acc, rooted) ==
    IF parts = <<>> THEN acc
    ELSE IF Head(parts) # <<".", ".">>
    THEN resolve_parts(Tail(parts), Append(acc, Head(parts)), rooted)
    ELSE IF acc # <<>> /\ acc[Len(acc)] # <<".", ".">>
    THEN resolve_parts(Tail(parts), SubSeq(acc, 1, Len(acc) - 1), rooted)
    ELSE IF rooted THEN resolve_parts(Tail(parts), acc, rooted)
    ELSE resolve_parts(Tail(parts), Append(acc, <<".", ".">>), rooted)

resolve(p) == [p EXCEPT !.parts = resolve_parts(p.parts, <<>>, p.root # <<>>)]

\* The path and every ancestor of it.
ancestors(p) ==
    {resolve([p EXCEPT !.parts = SubSeq(p.parts, 1, k)]) :
        k \in 0..Len(p.parts)}

\* Path.mkdir(parents=True, exist_ok=True)
mkdir(fs, p) ==
    IF resolve(p) \in DOMAIN fs.files
    THEN [exc |-> "FileExistsError", fs |-> fs]
    ELSE IF \E q \in ancestors(p) : q \in DOMAIN fs.files
    THEN [exc |-> "NotADirectoryError", fs |-> fs]
    ELSE [exc |-> "", fs |-> [fs EXCEPT !.dirs = @ \cup ancestors(p)]]

\* Path.write_text(content)
write_text(fs, p, content) ==
    IF resolve(p) \in fs.dirs
    THEN [exc |-> "IsADirectoryError", fs |-> fs]
    ELSE IF \E q \in ancestors(path_parent(p)) : q \in DOMAIN fs.files
    THEN [exc |-> "NotADirectoryError", fs |-> fs]
    ELSE IF resolve(path_parent(p)) \notin fs.dirs
    THEN [exc |-> "FileNotFoundError", fs |-> fs]
    ELSE [exc |-> "",
          fs |-> [fs EXCEPT !.files =
                    [q \in DOMAIN @ \cup {resolve(p)} |->
                        IF q = resolve(p) THEN content ELSE @[q]]]]

----------------------------------------------------------------------------
(* codegen/generator.py *)

build_file_context(file_path, ir_file, global_context) ==
    LET p == posix_path(file_path)
        has(kind) == items_of_kind(ir_file, kind) # <<>>
    IN  [module |-> global_context.module,
         files |-> global_context.files,
         file_paths |-> global_context.file_paths,
         mapping |-> global_context.mapping,
         all_types |-> global_context.types,
         all_enums |-> global_context.enums,
         all_functions |-> global_context.functions,
         all_classes |-> global_context.classes,
         all_constants |-> global_context.constants,
         all_aliases |-> global_context.aliases,
         file |-> ir_file,
         file_path |-> file_path,
         file_dir |-> IF path_parent(p) # posix_path(<<".">>)
                      THEN path_str(path_parent(p)) ELSE <<>>,
         file_name |-> path_name(p),
         file_stem |-> path_stem(p),
         file_ext |-> path_suffix(p),
         types |-> items_of_kind(ir_file, "struct"),
         enums |-> items_of_kind(ir_file, "enum"),
         functions |-> items_of_kind(ir_file, "function"),
         classes |-> items_of_kind(ir_file, "class"),
         constants |-> items_of_kind(ir_file, "constant"),
         aliases |-> items_of_kind(ir_file, "alias"),
         is_empty |-> ir_file.items = <<>>,
         has_types |-> has("struct"),
         has_enums |-> has("enum"),
         has_functions |-> has("function"),
         has_classes |-> has("class"),
         has_constants |-> has("constant"),
         has_aliases |-> has("alias")]

compute_output_path(ir_file_path, template_name, out_dir) ==
    LET ir_path == posix_path(ir_file_path)
        template_stem == path_stem(posix_path(template_name))
        output_name == path_stem(ir_path) \o <<".">> \o template_stem
    IN  path_join(path_join(out_dir, path_parent(ir_path)),
                  posix_path(output_name))

\* template.render(**context): the text that the template makes of the
\* context, kept as the pair of the two.
render(template, context) == [template |-> template, context |-> context]

\* rendered + "\n"
with_newline(rendered) == <<rendered, "\n">>

\* The writes of the run, one after the other, until one of them raises;
\* `done` lists the writes that were made, in the order they were made.
\* (The output tree that a write leaves is computed once and handed on.)
RECURSIVE run_writes(_, _, _, _)
run_writes(writes, i, fs, done) ==
    IF i > Len(writes) THEN [exc |-> "", fs |-> fs, writes |-> done]
    ELSE LET w == writes[i]
             made == IF w.mkdir THEN mkdir(fs, path_parent(w.path))
                     ELSE [exc |-> "", fs |-> fs]
             written == write_text(made.fs, w.path, w.content)
         IN  IF made.exc # ""
             THEN [exc |-> made.exc, fs |-> made.fs, writes |-> done]
             ELSE IF written.exc # ""
             THEN [exc |-> written.exc, fs |-> written.fs, writes |-> done]
             ELSE CHOOSE outcome \in
                    {run_writes(writes, i + 1, next,
                                Append(done, [path |-> w.path,
                                              file |-> w.file,
                                              template |-> w.template])) :
                        next \in {written.fs}} : TRUE

\* The two rendering loops of generate_bindings over a context that is
\* built: the module-level templates first, then every file of file_paths
\* with every per-file template.
render_all(global_context, out_dir, tree, global_glob, file_glob, fs) ==
    LET global_writes ==
            [i \in DOMAIN global_glob |->
                [mkdir |-> FALSE,
                 file |-> None,
                 template |-> global_glob[i],
                 path |-> path_join(out_dir,
                            posix_path(path_stem(posix_path(global_glob[i])))),
                 content |-> with_newline(render(global_glob[i],
                                                 global_context))]]
        file_writes(ir_file_path) ==
            LET file_context ==
                    build_file_context(ir_file_path,
                                       global_context.files[ir_file_path],
                                       global_context)
            IN  [i \in DOMAIN file_glob |->
                    [mkdir |-> TRUE,
                     file |-> Some(ir_file_path),
                     template |-> <<"f", "i", "l", "e", "/">> \o file_glob[i],
                     path |-> compute_output_path(ir_file_path, file_glob[i],
                                                  out_dir),
                     content |-> with_newline(
                        render(<<"f", "i", "l", "e", "/">> \o file_glob[i], file_context))]]
        per_file ==
            IF tree.file = None THEN <<>>
            ELSE Join(<<>>, [k \in DOMAIN global_context.file_paths |->
                                file_writes(global_context.file_paths[k])])
    IN  CHOOSE outcome \in {run_writes(writes, 1, fs, <<>>) :
                               writes \in {global_writes \o per_file}} : TRUE

\* Mutant of generate_bindings: the check of the template root is missing.
generate_bindings_unchecked(module, cfg, out_dir, tree, global_glob, file_glob, fs) ==
    CHOOSE outcome \in
        {[exc |-> written.exc, fs |-> written.fs,
          writes |-> written.writes, spawned |-> <<>>] :
            written \in {render_all(global_context, out_dir, tree,
                                    global_glob, file_glob, fs) :
                global_context \in {build_context(module, cfg.mapping)}}} :
        TRUE

\* generate_bindings, given the state of the template directory of the
\* configuration, what the two glob("*.j2") calls yield, and the output
\* tree that the run finds.  The outcome holds the exception that ended the
\* run (if any), the output tree that the run leaves, the writes that the
\* run made, in order, and the commands that the run has started: the
\* function starts none.
generate_bindings(module, cfg, out_dir, tree, global_glob, file_glob, fs) ==
    IF ~tree.root
    THEN [exc |-> "RuntimeError", fs |-> fs, writes |-> <<>>,
          spawned |-> <<>>]
    ELSE CHOOSE outcome \in
            {[exc |-> written.exc, fs |-> written.fs,
              writes |-> written.writes, spawned |-> <<>>] :
                written \in {render_all(global_context, out_dir, tree,
                                        global_glob, file_glob, fs) :
                    global_context \in {build_context(module, cfg.mapping)}}} :
            TRUE

----------------------------------------------------------------------------
(* codegen/generator.py: the template filter map_type *)

RECURSIVE map_ir_type(_, _)
map_ir_type(t, cfg) ==
    LET kind == t.kind
        is_const == "const" \in Range(t.qualifiers)
        inner_str == IF t.to = None THEN <<"v", "o", "i", "d">>
                     ELSE map_ir_type(t.to[1], cfg)
        element_str == IF t.element = None THEN <<"v", "o", "i", "d">>
                       ELSE map_ir_type(t.element[1], cfg)
        length == IF t.length # None THEN t.length[1] ELSE 0
        wrapped(s) == cfg.type_prefix \o s \o cfg.type_suffix
        \* "Passthrough or default" (lines 259-265, 276-282)
        unresolved(type_name) ==
            IF cfg.passthrough_unknown THEN wrapped(type_name)
            ELSE IF Truthy(cfg.default_type) THEN cfg.default_type[1]
            ELSE type_name
    IN  CASE kind = "void" -> Get(cfg.types, <<"v", "o", "i", "d">>, <<"v", "o", "i", "d">>)
          [] kind = "pointer" ->
                IF t.to # None /\ t.to[1].kind = "void"
                   /\ Truthy(cfg.void_pointer_type)
                THEN cfg.void_pointer_type[1]
                ELSE IF /\ t.to # None
                        /\ t.to[1].kind = "primitive"
                        /\ t.to[1].name = Some(<<"c", "h", "a", "r">>)
                        /\ is_const
                        /\ Truthy(cfg.const_char_pointer_type)
                THEN cfg.const_char_pointer_type[1]
                ELSE IF /\ t.to # None
                        /\ Truthy(t.to[1].name)
                        /\ (t.to[1].name[1] \o <<"*">>) \in DOMAIN cfg.types
                THEN cfg.types[t.to[1].name[1] \o <<"*">>]
                ELSE IF is_const
                THEN Format(cfg.const_pointer_format, [inner |-> inner_str])
                ELSE Format(cfg.pointer_format, [inner |-> inner_str])
          [] kind = "array" ->
                Format(cfg.array_format,
                       [element |-> element_str, length |-> IntStr(length)])
          [] kind = "reference" ->
                Format(cfg.reference_format, [inner |-> inner_str])
          [] kind = "primitive" ->
                LET type_name == NameOr(t.name, <<"i", "n", "t">>)
                IN  IF is_const /\ (<<"c", "o", "n", "s", "t", " ">> \o type_name) \in DOMAIN cfg.types
                    THEN cfg.types[<<"c", "o", "n", "s", "t", " ">> \o type_name]
                    ELSE IF type_name \in DOMAIN cfg.types
                    THEN wrapped(cfg.types[type_name])
                    ELSE unresolved(type_name)
          [] kind \in {"named", "struct", "enum", "class", "typedef",
                       "elaborated"} ->
                LET type_name == NameOr(t.name, <<"u", "n", "k", "n", "o", "w", "n">>)
                IN  IF type_name \in DOMAIN cfg.types
                    THEN wrapped(cfg.types[type_name])
                    ELSE unresolved(type_name)
          [] kind = "function_pointer" ->
                IF <<"f", "u", "n", "c", "t", "i", "o", "n", "_", "p", "o", "i", "n", "t", "e", "r">> \in DOMAIN cfg.types
                THEN cfg.types[<<"f", "u", "n", "c", "t", "i", "o", "n", "_", "p", "o", "i", "n", "t", "e", "r">>]
                ELSE <<"F", "u", "n", "c", "t", "i", "o", "n", "P", "o", "i", "n", "t", "e", "r">>
          [] OTHER ->
                IF Truthy(t.name) /\ t.name[1] \in DOMAIN cfg.types
                THEN cfg.types[t.name[1]]
                ELSE IF Truthy(t.name) /\ cfg.passthrough_unknown
                THEN wrapped(t.name[1])
                ELSE IF Truthy(cfg.default_type) THEN cfg.default_type[1]
                ELSE KindName[kind]

\* The filter that _register_filters installs as map_type, applied to an
\* IRType object or to None.
filter_map_type(cfg, ir) ==
    IF ir = None THEN <<"v", "o", "i", "d">> ELSE map_ir_type(ir[1], cfg)

----------------------------------------------------------------------------
(* cli.py *)

\* The call generate_bindings(*args): Python binds the positional arguments
\* to the four parameters (module, cfg, out_dir, config_path), none of which
\* has a default, before the body runs.
call_generate_bindings(args, tree, global_glob, file_glob, fs) ==
    IF Len(args) # 4
    THEN [exc |-> "TypeError", fs |-> fs, writes |-> <<>>, spawned |-> <<>>]
    ELSE generate_bindings(args[1], args[2], args[3], tree, global_glob,
                           file_glob, fs)

\* normalizer._compile_filters, with the project root that _cursor_path
\* finds.
compile_filters(cfg, root) ==
    [allow |-> cfg.filters.allowlist_regex,
     deny |-> cfg.filters.denylist_regex,
     exclude |-> Range(cfg.filters.exclude_dirs),
     root |-> root]

\* The end of main once the module is normalized: the optional dump of
\* the IR, the output directory, the generation and the return.
main_generate(args, env, cfg, module) ==
    LET out_dir == posix_path(args.out)
        fs == [files |-> <<>>, dirs |-> ancestors(out_dir)]
    IN  CHOOSE outcome \in
            {[exc |-> generated.exc,
              status |-> IF generated.exc = "" THEN Some(0) ELSE None,
              ir_file |-> ir_file,
              fs |-> generated.fs] :
                ir_file \in {IF args.dump_ir # None
                             THEN Some(dump_ir_json(module)) ELSE None},
                generated \in {call_generate_bindings(
                                  <<module, cfg, out_dir>>, env.tree,
                                  env.global_glob, env.file_glob, fs)}} : TRUE

\* main(argv), given what load_config and parse_headers come to on this
\* machine.  An exception that main does not catch ends the process; the
\* outcome then has no return value.
main(args, env) ==
    LET failed(exc) == [exc |-> exc, status |-> None, ir_file |-> None,
                        fs |-> [files |-> <<>>, dirs |-> {}]]
    IN  IF env.config.exc # "" THEN failed(env.config.exc)
        ELSE IF args.platform # None THEN failed("AttributeError")
        ELSE IF env.parse.exc # "" THEN failed(env.parse.exc)
        ELSE CHOOSE outcome \in
                {main_generate(args, env, cfg, module) :
                    cfg \in {env.config.val},
                    module \in {normalize_translation_unit(
                                   env.parse.val,
                                   compile_filters(env.config.val, env.root))}} :
                TRUE

----------------------------------------------------------------------------
(* The idle values of the stages *)

TypeIdle ==
    /\ tpc = "idle"
    /\ tp = None
    /\ ir_type = None
    /\ mapping = None
    /\ mapped = None
    /\ filtered = None

NameIdle ==
    /\ nmpc = "idle"
    /\ nm = None
    /\ nm_result = None

MethodIdle ==
    /\ mpc = "idle"
    /\ mapper = None
    /\ m_class = None
    /\ m_method = None
    /\ m_mapped = None

FuncIdle ==
    /\ fpc = "idle"
    /\ f_mapper = None
    /\ f_func = None
    /\ f_mapped = None

NormIdle ==
    /\ npc = "idle"
    /\ tu_in = None
    /\ filters = None
    /\ ir_module = None
    /\ n_context = None

SerIdle ==
    /\ spc = "idle"
    /\ s_module = None
    /\ s_doc = None
    /\ s_loaded = None

GenIdle ==
    /\ g_in = None
    /\ g_glob = None
    /\ g_run = None
    /\ g_context = None

CliIdle ==
    /\ c_in = None
    /\ c_exit = None

----------------------------------------------------------------------------
(* The inputs of the type-mapping specification *)

Quals == {<<>>, <<"const">>}

IRLeaves ==
    {IRKind("void", q) : q \in Quals}
    \cup {IRNamed("primitive", n, q) :
            n \in {None, Some(<<"i", "n", "t">>), Some(<<"c", "h", "a", "r">>)}, q \in Quals}
    \cup {IRNamed("named", n, <<>>) : n \in {None, Some(<<"F", "o", "o">>)}}

\* Every IRType tree of nesting depth at most d over IRLeaves, with absent
\* inner and element types included.
RECURSIVE IRTrees(_)
IRTrees(d) ==
    IF d = 0 THEN IRLeaves
    ELSE LET sub == IRTrees(d - 1)
             osub == {None} \cup {Some(t) : t \in sub}
         IN  sub
             \cup {IRType("pointer", None, o, None, None, q) :
                     o \in osub, q \in Quals}
             \cup {IRType("array", None, None, o, l, <<>>) :
                     o \in osub, l \in {None, Some(12)}}
             \cup {IRType("reference", None, o, None, None, <<>>) : o \in osub}

ClangLeaf(kind, const, spelling) ==
    ClangType(kind, const, spelling, None, None, 0, None)

ClangLeaves ==
    {ClangLeaf("VOID", FALSE, <<"v", "o", "i", "d">>),
     ClangLeaf("CHAR_S", FALSE, <<"c", "h", "a", "r">>),
     ClangLeaf("CHAR_S", TRUE, <<"c", "o", "n", "s", "t", " ", "c", "h", "a", "r">>),
     ClangLeaf("CHAR_U", TRUE, <<"c", "o", "n", "s", "t", " ", "c", "h", "a", "r">>),
     ClangLeaf("INT", FALSE, <<"i", "n", "t">>),
     ClangLeaf("RECORD", FALSE, <<"F", "o", "o">>),
     ClangLeaf("TYPEDEF", FALSE, <<"s", "i", "z", "e", "_", "t">>),
     ClangLeaf("TYPEDEF", FALSE, <<"M", "y", "T">>),
     ClangLeaf("FUNCTIONPROTO", FALSE, <<"v", "o", "i", "d", " ", "(", "i", "n", "t", ")">>),
     ClangType("ELABORATED", FALSE, <<"F", "o", "o">>, None, None, 0,
               Some(ClangLeaf("RECORD", FALSE, <<"F", "o", "o">>))),
     ClangType("UNEXPOSED", FALSE, <<"T">>, None, None, 0,
               Some(ClangLeaf("UNEXPOSED", FALSE, <<"T">>)))}

\* The C types handed to the normalizer: the leaves, and a pointer to, a
\* reference to and an array of each.
ClangTypes ==
    ClangLeaves
    \cup {ClangType("POINTER", c, <<"p", "t", "r">>, Some(t), None, 0, None) :
            t \in ClangLeaves, c \in BOOLEAN}
    \cup {ClangType("LVALUEREFERENCE", FALSE, <<"r", "e", "f">>, Some(t), None, 0, None) :
            t \in ClangLeaves}
    \cup {ClangType("CONSTANTARRAY", FALSE, <<"a", "r", "r">>, None, Some(t), 12, None) :
            t \in ClangLeaves}

TypeTables ==
    {<<>>,
     (<<"i", "n", "t">> :> <<"I", "n", "t", "3", "2">> @@ <<"F", "o", "o">> :> <<"F", "o", "o", "T">> @@ <<"i", "n", "t", "3", "2">> :> <<"I", "n", "t", "3", "2">>),
     (<<"c", "h", "a", "r", "*">> :> <<"C", "S", "t", "r", "i", "n", "g">> @@ <<"c", "o", "n", "s", "t", " ", "c", "h", "a", "r", "*">> :> <<"C", "o", "n", "s", "t", "C", "S", "t", "r", "i", "n", "g">>
      @@ <<"c", "o", "n", "s", "t", " ", "i", "n", "t">> :> <<"C", "I", "n", "t">>),
     (<<"c", "o", "n", "s", "t", " ", "c", "h", "a", "r", "*">> :> <<"C", "o", "n", "s", "t", "S", "t", "r">> @@ <<"v", "o", "i", "d", "*">> :> <<"V", "o", "i", "d", "P", "t", "r">>
      @@ <<"v", "o", "i", "d">> :> <<"V", "o", "i", "d">>)}

MappingConfigs ==
    {MappingConfig(types, default_type, passthrough_unknown, <<>>,
                   void_pointer_type, const_char_pointer_type,
                   DefaultNaming, NoOptions) :
        types \in TypeTables,
        default_type \in {None, Some(<<"A", "n", "y">>)},
        passthrough_unknown \in BOOLEAN,
        void_pointer_type \in {None, Some(<<"H", "a", "n", "d", "l", "e">>)},
        const_char_pointer_type \in {None, Some(<<"s", "t", "r", "i", "n", "g", "_", "v", "i", "e", "w">>)}}
    \cup {MappingConfig(types, default_type, passthrough_unknown, <<"f", "f", "i", ".">>,
                        None, None, DefaultNaming, NoOptions) :
            types \in TypeTables,
            default_type \in {None, Some(<<"A", "n", "y">>)},
            passthrough_unknown \in BOOLEAN}

----------------------------------------------------------------------------
(* The type-mapping specification: a C type is normalized to an IRType
   (or an IRType is loaded as it is), the TypeMapper maps it, and a template
   applies the filter map_type to it. *)

TypeInit ==
    /\ FuncIdle
    /\ NameIdle
    /\ MethodIdle
    /\ NormIdle
    /\ SerIdle
    /\ GenIdle
    /\ CliIdle
    /\ mapping \in MappingConfigs
    /\ mapped = None
    /\ filtered = None
    /\ \/ /\ tpc = "clang"
          /\ tp \in {Some(c) : c \in ClangTypes}
          /\ ir_type = None
       \/ /\ tpc = "ir"
          /\ tp = None
          /\ ir_type \in {None} \cup {Some(t) : t \in IRTrees(MaxDepth)}

TypeFromClang ==
    /\ tpc = "clang"
    /\ ir_type' = Some(type_from_clang(tp[1]))
    /\ tpc' = "ir"
    /\ UNCHANGED <<tp, mapping, mapped, filtered>>
    /\ UNCHANGED otherThanType

MapType ==
    /\ tpc = "ir"
    /\ mapped' = Some(map_type(mapping, ir_type))
    /\ tpc' = "mapped"
    /\ UNCHANGED <<tp, ir_type, mapping, filtered>>
    /\ UNCHANGED otherThanType

\* A template applies the filter map_type to the raw IR type of a mapped
\* type.
FilterMapType ==
    /\ tpc = "mapped"
    /\ mapped[1].exc = ""
    /\ filtered' = Some(filter_map_type(mapping, ir_type))
    /\ tpc' = "filtered"
    /\ UNCHANGED <<tp, ir_type, mapping, mapped>>
    /\ UNCHANGED otherThanType

TypeNext == TypeFromClang \/ MapType \/ FilterMapType

SpecType == TypeInit /\ [][TypeNext]_vars

----------------------------------------------------------------------------
(* The naming specification: one call of strip_affixes, apply_style or
   transform_name on one set of arguments. *)

Names ==
    {<<"n", "a", "_", "w", "i", "n", "d", "o", "w", "_", "c", "r", "e", "a", "t", "e">>, <<"n", "a", "_", "n", "a", "_", "x">>, <<"w", "i", "n", "d", "o", "w">>, <<"W", "i", "n", "d", "o", "w", "_", "t">>, <<"X", "M", "L", "P", "a", "r", "s", "e", "r", "2", "D">>,
     <<"G", "e", "t", "H", "T", "T", "P", "R", "e", "s", "p", "o", "n", "s", "e">>, <<"m", "y", "-", "l", "i", "b", " ", "n", "a", "m", "e">>, <<"N", "A", "_", "x", "_", "t", "e">>, <<>>}

Styles ==
    {"original", "", "snake_case", "camel_case", "pascal_case",
     "screaming_snake_case", "kebab_case", "title_case"}

StripPrefixLists ==
    {<<>>, <<<<"n", "a", "_">>>>, <<<<"n">>, <<"n", "a", "_">>>>, <<<<"n", "a", "_">>, <<"N", "A", "_">>, <<"n", "a", "_", "n", "a", "_">>>>}

StripSuffixLists == {<<>>, <<<<"_", "t">>>>, <<<<"e">>, <<"t", "e">>>>, <<<<"_", "t">>, <<>>>>}

AddPrefixes == {<<>>, <<"n", "a", "_">>, <<"N", "a">>}
AddSuffixes == {<<>>, <<"_", "t">>}

NameInit ==
    /\ FuncIdle
    /\ TypeIdle
    /\ MethodIdle
    /\ NormIdle
    /\ SerIdle
    /\ GenIdle
    /\ CliIdle
    /\ nmpc = "input"
    /\ nm \in [name : Names, style : Styles,
               strip_prefixes : StripPrefixLists,
               strip_suffixes : StripSuffixLists,
               add_prefix : AddPrefixes, add_suffix : AddSuffixes]
    /\ nm_result = None

StripAffixes ==
    /\ nmpc = "input"
    /\ nm_result' = Some(strip_affixes(nm.name, nm.strip_prefixes,
                                       nm.strip_suffixes))
    /\ nmpc' = "stripped"
    /\ UNCHANGED nm
    /\ UNCHANGED otherThanName

ApplyStyle ==
    /\ nmpc = "input"
    /\ nm_result' = Some(apply_style(nm.name, nm.style))
    /\ nmpc' = "styled"
    /\ UNCHANGED nm
    /\ UNCHANGED otherThanName

TransformName ==
    /\ nmpc = "input"
    /\ nm_result' = Some(transform_name(nm.name, nm.style, nm.strip_prefixes,
                                        nm.strip_suffixes, nm.add_prefix,
                                        nm.add_suffix))
    /\ nmpc' = "transformed"
    /\ UNCHANGED nm
    /\ UNCHANGED otherThanName

NameNext == StripAffixes \/ ApplyStyle \/ TransformName

SpecName == NameInit /\ [][NameNext]_vars

----------------------------------------------------------------------------
(* The method-mapping specification: TypeMapper.map_method on one method of
   one class under one mapping configuration. *)

IntType == IRNamed("primitive", Some(<<"i", "n", "t">>), <<>>)
BoolType == IRNamed("primitive", Some(<<"b", "o", "o", "l">>), <<>>)
ConstCharPtr ==
    IRType("pointer", None, Some(IRNamed("primitive", Some(<<"c", "h", "a", "r">>), <<>>)),
           None, None, <<"const">>)

MethodNames ==
    {<<"G", "e", "t", "W", "i", "d", "t", "h">>, <<"G", "e", "t", "U", "R", "L">>, <<"G", "e", "t">>, <<"G", "e", "t", "t", "e", "r">>, <<"G", "e", "t", "I", "n", "s", "t", "a", "n", "c", "e">>, <<"g", "e", "t", "W", "i", "d", "t", "h">>,
     <<"I", "s", "V", "i", "s", "i", "b", "l", "e">>, <<"S", "e", "t", "W", "i", "d", "t", "h">>, <<"~", "W", "i", "n", "d", "o", "w">>, <<"W", "i", "n", "d", "o", "w">>}

ReturnTypes ==
    {IRKind("void", <<>>), IntType, BoolType, ConstCharPtr,
     IRNamed("named", Some(<<"F", "o", "o">>), <<>>), IRKind("bool", <<>>)}

ParamLists ==
    {<<>>,
     <<IRParam(<<"v", "a", "l", "u", "e">>, IntType, FALSE, None)>>,
     <<IRParam(<<"t", "i", "t", "l", "e">>, ConstCharPtr, TRUE, Some("in")),
       IRParam(<<"n">>, IntType, FALSE, None)>>}

Methods ==
    {IRMethod(name, return_type, params, "method", static, FALSE,
              Some("public"), FALSE) :
        name \in MethodNames, return_type \in ReturnTypes,
        params \in ParamLists, static \in BOOLEAN}

Classes ==
    {IRClass(<<"W", "i", "n", "d", "o", "w">>, <<>>, <<>>, <<>>, q) :
        q \in {None, Some(<<"n", "a", ":", ":", "W", "i", "n", "d", "o", "w">>)}}

\* A configuration with a type table, naming rules and every option table.
BridgedConfig ==
    MappingConfig(
        (<<"i", "n", "t">> :> <<"I", "n", "t", "3", "2">> @@ <<"b", "o", "o", "l">> :> <<"B", "o", "o", "l">>
         @@ <<"c", "o", "n", "s", "t", " ", "c", "h", "a", "r", "*">> :> <<"S", "t", "r", "i", "n", "g">> @@ <<"v", "o", "i", "d">> :> <<"V", "o", "i", "d">>),
        None, TRUE, <<>>, None, None,
        NamingConfig("camel_case", <<<<"n", "a", "_">>>>, <<>>, <<>>, <<>>),
        Options(
            (<<"n", "a", ":", ":", "W", "i", "n", "d", "o", "w", ":", ":", "G", "e", "t", "W", "i", "d", "t", "h">> :> <<"n", "a", "_", "w", "i", "n", "d", "o", "w", "_", "w", "i", "d", "t", "h">>
             @@ <<"n", "a", ":", ":", "W", "i", "n", "d", "o", "w", "C", "r", "e", "a", "t", "e">> :> <<"n", "a", "_", "w", "i", "n", "d", "o", "w", "_", "n", "e", "w">>
             @@ <<"G", "e", "t", "T", "i", "t", "l", "e">> :> <<"g", "e", "t", "_", "t", "i", "t", "l", "e", "_", "u", "t", "f", "8">>),
            <<<<"W", "i", "n", "d", "o", "w">>>>,
            <<<<<<"t", "i", "t", "l", "e">>, <<"f", "r", "e", "e", "_", "t", "i", "t", "l", "e">>>>, <<<<"d", "e", "f", "a", "u", "l", "t">>, <<"f", "r", "e", "e", "_", "s", "t", "r">>>>,
              <<<<"g", "e", "t">>, <<"f", "r", "e", "e", "_", "g", "e", "t">>>>>>,
            (<<"s", "t", "r", "i", "n", "g">> :> <<"S", "t", "r", "i", "n", "g">>),
            [exact |-> (<<"B", "o", "o", "l">> :> <<"b", "o", "o", "l">>),
             contains |-> <<[match |-> <<>>, type |-> <<"n", "e", "v", "e", "r">>],
                            [match |-> <<"I", "n", "t">>, type |-> <<"i", "n", "t">>]>>],
            (<<"S", "t", "r", "i", "n", "g">> :> <<"s", "t", "r", "i", "n", "g">> @@ <<"I", "n", "t", "3", "2">> :> <<"n", "u", "m", "b", "e", "r">>),
            <<[type_key |-> Some(<<"s", "t", "r", "i", "n", "g">>), api_type |-> <<>>,
               symbol_suffixes |-> <<<<"_", "w", "i", "d", "t", "h">>, <<"_", "u", "r", "l">>>>,
               args |-> <<<<Ph("name"), Lit(<<".", "p", "t", "r">>)>>,
                          <<Ph("name"), Lit(<<".", "l", "e", "n">>)>>>>],
              [type_key |-> None, api_type |-> <<"i", "n", "t">>,
               symbol_suffixes |-> <<>>,
               args |-> <<<<Lit(<<"(", "i", "n", "t", ")">>), Ph("name")>>>>]>>))

\* A configuration with rules that say little: a parameter bridge whose
\* type alias is not configured, one without argument templates, one
\* without a type, and a free-symbol table with an empty key and without a
\* default.
LooseConfig ==
    MappingConfig(
        (<<"i", "n", "t">> :> <<"I", "n", "t", "3", "2">> @@ <<"c", "o", "n", "s", "t", " ", "c", "h", "a", "r", "*">> :> <<"S", "t", "r", "i", "n", "g">>),
        None, TRUE, <<>>, None, None, DefaultNaming,
        Options(
            <<>>,
            <<>>,
            <<<<<<>>, <<"f", "r", "e", "e", "_", "n", "o", "t", "h", "i", "n", "g">>>>, <<<<"u", "r", "l">>, <<"f", "r", "e", "e", "_", "u", "r", "l">>>>,
              <<<<"g", "e", "t">>, <<"f", "r", "e", "e", "_", "g", "e", "t">>>>>>,
            <<>>,
            [exact |-> <<>>, contains |-> <<>>],
            (<<"S", "t", "r", "i", "n", "g">> :> <<"s", "t", "r", "i", "n", "g">> @@ <<"I", "n", "t", "3", "2">> :> <<"n", "u", "m", "b", "e", "r">>),
            <<[type_key |-> Some(<<"m", "i", "s", "s", "i", "n", "g">>), api_type |-> <<>>,
               symbol_suffixes |-> <<<<"_", "u", "r", "l">>>>,
               args |-> <<<<Ph("name"), Lit(<<".", "r", "a", "w">>)>>>>],
              [type_key |-> None, api_type |-> <<"S", "t", "r", "i", "n", "g">>,
               symbol_suffixes |-> <<>>,
               args |-> <<>>],
              [type_key |-> None, api_type |-> <<>>,
               symbol_suffixes |-> <<>>,
               args |-> <<<<Lit(<<"&">>), Ph("name")>>>>]>>))

\* A configuration whose API type of void is "bool".
VoidAsBoolConfig ==
    MappingConfig(<<>>, None, TRUE, <<>>, None, None, DefaultNaming,
                  [NoOptions EXCEPT
                     !.api_type_rules.exact = (<<"v", "o", "i", "d">> :> <<"b", "o", "o", "l">>)])

MethodConfigs ==
    {MappingConfig(<<>>, None, TRUE, <<>>, None, None, DefaultNaming,
                   NoOptions),
     MappingConfig(<<>>, Some(<<"A", "n", "y">>), FALSE, <<>>, None, Some(<<"S", "t", "r", "i", "n", "g">>),
                   NamingConfig("snake_case", <<>>, <<>>, <<"m", "_">>, <<>>),
                   [NoOptions EXCEPT
                      !.return_bridge_map = (<<"S", "t", "r", "i", "n", "g">> :> <<"s", "t", "r", "i", "n", "g">>)]),
     BridgedConfig,
     LooseConfig,
     VoidAsBoolConfig}

MethodInit ==
    /\ FuncIdle
    /\ TypeIdle
    /\ NameIdle
    /\ NormIdle
    /\ SerIdle
    /\ GenIdle
    /\ CliIdle
    /\ mpc = "input"
    /\ mapper \in {Some(TypeMapper(c)) : c \in MethodConfigs}
    /\ m_class \in {Some(c) : c \in Classes}
    /\ m_method \in {Some(m) : m \in Methods}
    /\ m_mapped = None

MapMethod ==
    /\ mpc = "input"
    /\ m_mapped' = Some(map_method(mapper[1], m_method[1], m_class[1]))
    /\ mpc' = "mapped"
    /\ UNCHANGED <<mapper, m_class, m_method>>
    /\ UNCHANGED otherThanMethod

MethodNext == MapMethod

SpecMethod == MethodInit /\ [][MethodNext]_vars

----------------------------------------------------------------------------
(* The callable-mapping specification: TypeMapper.map_function on one
   function, or TypeMapper.map_method on one method of one class, under one
   mapping configuration. *)

FunctionNames == {<<"n", "a", "_", "c", "r", "e", "a", "t", "e">>, <<"W", "i", "n", "d", "o", "w", "C", "r", "e", "a", "t", "e">>, <<"G", "e", "t", "T", "i", "t", "l", "e">>, <<"G", "e", "t", "U", "R", "L">>}

\* The qualified names that a function of the name can have: none (an IR
\* that was loaded from a file), the name itself (a function at the top
\* level) and the name in a namespace.
QualifiedNames(name) == {None, Some(name), Some(<<"n", "a", ":", ":">> \o name)}

Functions ==
    UNION {{IRFunction(name, return_type, params, None, FALSE, q) :
               return_type \in {None} \cup {Some(t) : t \in ReturnTypes},
               params \in ParamLists,
               q \in QualifiedNames(name)} :
             name \in FunctionNames}

FunctionInit ==
    /\ TypeIdle
    /\ NameIdle
    /\ MethodIdle
    /\ NormIdle
    /\ SerIdle
    /\ GenIdle
    /\ CliIdle
    /\ fpc = "input"
    /\ f_mapper \in {Some(TypeMapper(c)) : c \in MethodConfigs}
    /\ f_func \in {Some(f) : f \in Functions}
    /\ f_mapped = None

MapFunction ==
    /\ fpc = "input"
    /\ f_mapped' = Some(map_function(f_mapper[1], f_func[1]))
    /\ fpc' = "mapped"
    /\ UNCHANGED <<f_mapper, f_func>>
    /\ UNCHANGED otherThanFunc

FunctionNext == MapFunction

\* The mapping of one callable: a method of a class, or a function.
CallableInit == MethodInit \/ FunctionInit

CallableNext == MapMethod \/ MapFunction

SpecCallable == CallableInit /\ [][CallableNext]_vars

----------------------------------------------------------------------------
(* The normalizer specification: normalize_translation_unit on one
   translation unit under one filter configuration. *)

ProjectRoot == <<<<"/">>, <<"p", "r", "o", "j">>>>
WindowHeader == Some(<<<<"/">>, <<"p", "r", "o", "j">>, <<"s", "r", "c">>, <<"w", "i", "n", "d", "o", "w", ".", "h">>>>)
HelperHeader == Some(<<<<"/">>, <<"p", "r", "o", "j">>, <<"s", "r", "c">>, <<"u", "t", "i", "l">>, <<"h", "e", "l", "p", "e", "r", ".", "h">>>>)
VendorHeader == Some(<<<<"/">>, <<"o", "p", "t">>, <<"v", "e", "n", "d", "o", "r">>, <<"s", "r", "c">>, <<"n", "a", ".", "h">>>>)
SystemHeader == Some(<<<<"/">>, <<"u", "s", "r">>, <<"i", "n", "c", "l", "u", "d", "e">>, <<"s", "t", "d", "i", "o", ".", "h">>>>)

ClangInt == ClangLeaf("INT", FALSE, <<"i", "n", "t">>)
ClangVoid == ClangLeaf("VOID", FALSE, <<"v", "o", "i", "d">>)
ClangWindowPtr ==
    ClangType("POINTER", FALSE, <<"W", "i", "n", "d", "o", "w", " ", "*">>,
              Some(ClangLeaf("RECORD", FALSE, <<"W", "i", "n", "d", "o", "w">>)), None, 0, None)

\* The declarations that a translation unit of the model is made of.
Declarations ==
    {Cursor("FUNCTION_DECL", <<"W", "i", "n", "d", "o", "w", "C", "r", "e", "a", "t", "e">>,
        [file |-> WindowHeader, result_type |-> Some(ClangWindowPtr),
         arguments |-> <<[spelling |-> <<"w", "i", "d", "t", "h">>, type |-> Some(ClangInt)]>>]),
     Cursor("FUNCTION_DECL", <<"H", "e", "l", "p", "e", "r">>,
        [file |-> HelperHeader, result_type |-> Some(ClangVoid)]),
     Cursor("FUNCTION_DECL", <<"o", "p", "e", "r", "a", "t", "o", "r", "+">>,
        [file |-> WindowHeader, result_type |-> Some(ClangInt)]),
     Cursor("FUNCTION_DECL", <<"W", "i", "n", "d", "o", "w", "B", "u", "i", "l", "t", "i", "n">>,
        [result_type |-> Some(ClangInt)]),
     Cursor("STRUCT_DECL", <<"W", "i", "n", "d", "o", "w">>,
        [file |-> WindowHeader,
         children |-> <<Cursor("FIELD_DECL", <<"w", "i", "d", "t", "h">>,
                               [file |-> WindowHeader,
                                type |-> Some(ClangInt)])>>]),
     Cursor("CLASS_DECL", <<"W", "i", "n", "d", "o", "w", "M", "a", "n", "a", "g", "e", "r">>,
        [file |-> WindowHeader,
         children |->
            <<Cursor("CXX_BASE_SPECIFIER", <<"B", "a", "s", "e">>,
                     [file |-> WindowHeader,
                      type |-> Some(ClangLeaf("RECORD", FALSE, <<"B", "a", "s", "e">>))]),
              Cursor("CONSTRUCTOR", <<"W", "i", "n", "d", "o", "w", "M", "a", "n", "a", "g", "e", "r">>,
                     [file |-> WindowHeader,
                      result_type |-> Some(ClangVoid)]),
              Cursor("CXX_METHOD", <<"G", "e", "t", "H", "e", "l", "p", "e", "r">>,
                     [file |-> WindowHeader,
                      result_type |-> Some(ClangInt),
                      is_const_method |-> TRUE]),
              Cursor("CXX_METHOD", <<"G", "e", "t", "I", "n", "s", "t", "a", "n", "c", "e">>,
                     [file |-> WindowHeader,
                      result_type |-> Some(ClangWindowPtr),
                      is_static_method |-> TRUE]),
              Cursor("CXX_METHOD", <<"R", "e", "s", "e", "t">>,
                     [file |-> WindowHeader,
                      result_type |-> Some(ClangVoid),
                      access_specifier |-> "PRIVATE"]),
              Cursor("FIELD_DECL", <<"c", "o", "u", "n", "t">>,
                     [file |-> WindowHeader, type |-> Some(ClangInt)])>>]),
     Cursor("STRUCT_DECL", <<"W", "i", "n", "d", "o", "w", "H", "a", "n", "d", "l", "e">>,
        [file |-> WindowHeader,
         children |->
            <<Cursor("FIELD_DECL", <<"i", "d">>,
                     [file |-> WindowHeader, type |-> Some(ClangInt)]),
              Cursor("FIELD_DECL", <<"s", "e", "c", "r", "e", "t">>,
                     [file |-> WindowHeader, type |-> Some(ClangInt),
                      access_specifier |-> "PRIVATE"]),
              Cursor("CXX_METHOD", <<"I", "s", "V", "a", "l", "i", "d">>,
                     [file |-> WindowHeader,
                      result_type |-> Some(ClangInt),
                      is_const_method |-> TRUE]),
              Cursor("CXX_METHOD", <<"D", "r", "o", "p">>,
                     [file |-> WindowHeader,
                      result_type |-> Some(ClangVoid),
                      access_specifier |-> "PROTECTED"]),
              Cursor("DESTRUCTOR", <<"~", "W", "i", "n", "d", "o", "w", "H", "a", "n", "d", "l", "e">>,
                     [file |-> WindowHeader,
                      result_type |-> Some(ClangVoid)])>>]),
     Cursor("STRUCT_DECL", <<"W", "i", "n", "d", "o", "w", "E", "v", "e", "n", "t">>,
        [file |-> WindowHeader,
         children |->
            <<Cursor("CXX_BASE_SPECIFIER", <<"E", "v", "e", "n", "t">>,
                     [file |-> WindowHeader,
                      type |-> Some(ClangLeaf("RECORD", FALSE, <<"E", "v", "e", "n", "t">>))]),
              Cursor("FIELD_DECL", <<"c", "o", "d", "e">>,
                     [file |-> WindowHeader, type |-> Some(ClangInt)])>>]),
     Cursor("ENUM_DECL", <<"H", "e", "l", "p", "e", "r", "M", "o", "d", "e">>,
        [file |-> HelperHeader,
         children |-> <<Cursor("ENUM_CONSTANT_DECL", <<"H", "E", "L", "P", "E", "R", "_", "O", "N">>,
                               [file |-> HelperHeader, enum_value |-> 1])>>]),
     Cursor("TYPEDEF_DECL", <<"H", "e", "l", "p", "e", "r">>,
        [file |-> VendorHeader,
         underlying_typedef_type |->
            Some(ClangLeaf("ELABORATED", FALSE, <<"s", "t", "r", "u", "c", "t", " ", "(", "u", "n", "n", "a", "m", "e", "d", ")">>)),
         declaration |->
            Some(Cursor("STRUCT_DECL", <<>>, [file |-> VendorHeader]))]),
     Cursor("TYPEDEF_DECL", <<"W", "i", "n", "d", "o", "w", "I", "d">>,
        [file |-> SystemHeader,
         underlying_typedef_type |-> Some(ClangInt)]),
     Cursor("MACRO_DEFINITION", <<"W", "I", "N", "D", "O", "W", "_", "M", "A", "X">>,
        [file |-> WindowHeader, tokens |-> <<<<"W", "I", "N", "D", "O", "W", "_", "M", "A", "X">>, <<"0", "x", "1", "0">>>>]),
     Cursor("NAMESPACE", <<"n", "a">>,
        [file |-> WindowHeader,
         children |->
            <<Cursor("FUNCTION_DECL", <<"W", "i", "n", "d", "o", "w", "S", "h", "o", "w">>,
                     [file |-> WindowHeader,
                      result_type |-> Some(ClangVoid)]),
              Cursor("FUNCTION_DECL", <<"W", "i", "n", "d", "o", "w", "H", "i", "d", "d", "e", "n">>,
                     [file |-> WindowHeader,
                      result_type |-> Some(ClangVoid),
                      raw_comment |-> Some(<<"/", "/", " ", "b", "i", "n", "d", "g", "e", "n", ":", "i", "g", "n", "o", "r", "e">>)]),
              Cursor("FUNCTION_DECL", <<"H", "e", "l", "p", "e", "r">>,
                     [file |-> WindowHeader,
                      result_type |-> Some(ClangInt)]),
              Cursor("FUNCTION_DECL", <<"H", "e", "l", "p", "e", "r">>,
                     [file |-> WindowHeader,
                      result_type |-> Some(ClangInt),
                      arguments |-> <<[spelling |-> <<"m", "o", "d", "e">>,
                                       type |-> Some(ClangInt)]>>])>>])}

\* A translation unit: up to MaxDecls different declarations in any order.
TranslationUnits ==
    {t \in UNION {[1..n -> Declarations] : n \in 0..MaxDecls} :
        \A i, j \in DOMAIN t : i # j => t[i] # t[j]}

AllowLists == {<<>>, <<<<"^", "W", "i", "n", "d", "o", "w">>>>, <<<<"H", "e", "l", "p", "e", "r", "$">>, <<"^", "n", "a", "_">>>>}
DenyLists == {<<>>, <<<<"M", "a", "n", "a", "g", "e", "r">>>>, <<<<"^", "W", "i", "n", "d", "o", "w">>, <<"M", "o", "d", "e">>>>}
ExcludeDirs == {{}, {<<"u", "t", "i", "l">>}}

NormInit ==
    /\ FuncIdle
    /\ TypeIdle
    /\ NameIdle
    /\ MethodIdle
    /\ SerIdle
    /\ GenIdle
    /\ CliIdle
    /\ npc = "parsed"
    /\ tu_in \in {Some(t) : t \in TranslationUnits}
    /\ filters \in {Some([allow |-> a, deny |-> d, exclude |-> e,
                          root |-> ProjectRoot]) :
                        a \in AllowLists, d \in DenyLists, e \in ExcludeDirs}
    /\ ir_module = None
    /\ n_context = None

NormalizeTranslationUnit ==
    /\ npc = "parsed"
    /\ ir_module' = Some(normalize_translation_unit(tu_in[1], filters[1]))
    /\ npc' = "normalized"
    /\ UNCHANGED <<tu_in, filters, n_context>>
    /\ UNCHANGED otherThanNorm

\* The mapping configuration under which the normalized module is mapped.
NormMapping == BridgedConfig

\* build_context on the module that the normalizer returned, as
\* generate_bindings calls it.
BuildNormalizedContext ==
    /\ npc = "normalized"
    /\ n_context' = Some(build_context(ir_module[1], NormMapping))
    /\ npc' = "mapped"
    /\ UNCHANGED <<tu_in, filters, ir_module>>
    /\ UNCHANGED otherThanNorm

NormNext == NormalizeTranslationUnit \/ BuildNormalizedContext

SpecNorm == NormInit /\ [][NormNext]_vars

----------------------------------------------------------------------------
(* The serializer specification: a module in memory is dumped to the IR
   file, and the IR file (dumped, or written by someone else) is loaded. *)

NestedType ==
    IRType("pointer", None,
           Some(IRType("array", None, None,
                       Some(IRType("reference", None, Some(IntType), None,
                                   None, <<>>)),
                       Some(4), <<>>)),
           None, None, <<"const">>)

\* The items that a module of the model is made of: every kind of item,
\* nested types, and optional type fields both set and unset.
Items ==
    {IRStruct(<<"P", "o", "i", "n", "t">>, <<IRField(<<"x">>, IntType), IRField(<<"p">>, NestedType)>>,
              Some(<<"n", "a", ":", ":", "P", "o", "i", "n", "t">>)),
     IREnum(<<"M", "o", "d", "e">>, <<IREnumValue(<<"O", "N">>, 1), IREnumValue(<<"O", "F", "F">>, 0)>>, TRUE,
            None),
     IRAlias(<<"H", "a", "n", "d", "l", "e">>, Some(NestedType)),
     IRAlias(<<"O", "p", "a", "q", "u", "e">>, None),
     IRFunction(<<"c", "r", "e", "a", "t", "e">>, Some(ConstCharPtr),
                <<IRParam(<<"n">>, IntType, TRUE, Some("in"))>>, Some(<<"c", "d", "e", "c", "l">>),
                TRUE, Some(<<"n", "a", ":", ":", "c", "r", "e", "a", "t", "e">>)),
     IRFunction(<<"r", "u", "n">>, None, <<>>, None, FALSE, None),
     IRClass(<<"W", "i", "n", "d", "o", "w">>, <<IRField(<<"w">>, IntType)>>,
             <<IRMethod(<<"G", "e", "t", "W", "i", "d", "t", "h">>, IntType, <<>>, "method", FALSE, TRUE,
                        Some("public"), FALSE)>>,
             <<<<"B", "a", "s", "e">>>>, Some(<<"n", "a", ":", ":", "W", "i", "n", "d", "o", "w">>)),
     IRConstant(<<"M", "A", "X">>, Some(IRKind("int32", <<>>)), [int |-> 16]),
     IRConstant(<<"N", "A", "M", "E">>, None, [str |-> <<"n", "a">>]),
     IRConstant(<<"P", "I">>, Some(IRKind("float64", <<>>)), [float |-> <<"3", ".", "1", "4">>])}

ItemLists(n) == UNION {[1..k -> Items] : k \in 0..n}

\* A module of at most two files.
Modules ==
    {IRModule(<<>>)}
    \cup {IRModule(<<"s", "r", "c", "/", "a", ".", "h">> :> IRFile(a)) : a \in ItemLists(MaxItems)}
    \cup {IRModule(<<"s", "r", "c", "/", "a", ".", "h">> :> IRFile(a) @@ <<"s", "r", "c", "/", "b", ".", "h">> :> IRFile(b)) :
            a \in ItemLists(MaxItems), b \in ItemLists(1)}

\* IR files that dump_ir_json did not write: an item of a kind that the
\* loader does not know, and an item with fields missing.
ForeignDocs ==
    {JObj(<<"x", ".", "h">> :> JArr(<<JObj([kind |-> JStr("union"),
                                 name |-> JStr(<<"U">>)])>>)),
     JObj(<<"x", ".", "h">> :> JArr(<<JObj([kind |-> JStr("alias")]),
                           JObj([kind |-> JStr("function"),
                                 name |-> JStr(<<"f">>),
                                 return_type |-> JObj([kind |-> JStr("void")])])>>))}

SerInit ==
    /\ FuncIdle
    /\ TypeIdle
    /\ NameIdle
    /\ MethodIdle
    /\ NormIdle
    /\ GenIdle
    /\ CliIdle
    /\ spc = "start"
    /\ s_module \in {Some(m) : m \in Modules}
    /\ s_doc \in {None} \cup {Some(doc) : doc \in ForeignDocs}
    /\ s_loaded = None

DumpIrJson ==
    /\ spc = "start"
    /\ s_doc' = Some(dump_ir_json(s_module[1]))
    /\ spc' = "dumped"
    /\ UNCHANGED <<s_module, s_loaded>>
    /\ UNCHANGED otherThanSer

LoadIrJson ==
    /\ spc \in {"start", "dumped"}
    /\ s_doc # None
    /\ s_loaded' = Some(load_ir_json(s_doc[1]))
    /\ spc' = IF spc = "dumped" THEN "reloaded" ELSE "loaded"
    /\ UNCHANGED <<s_module, s_doc>>
    /\ UNCHANGED otherThanSer

SerNext == DumpIrJson \/ LoadIrJson

SpecSer == SerInit /\ [][SerNext]_vars

----------------------------------------------------------------------------
(* The generator specification: generate_bindings runs twice on the same
   module, configuration and template directory, each run into a fresh
   output directory.  Path.glob yields the entries of a directory in an
   order of the file system's choosing, which the code does not sort: each
   run draws its own. *)

Runs == {"first", "second"}

WindowClass ==
    IRClass(<<"W", "i", "n", "d", "o", "w">>, <<IRField(<<"w">>, IntType)>>,
            <<IRMethod(<<"G", "e", "t", "W", "i", "d", "t", "h">>, IntType, <<>>, "method", FALSE, TRUE,
                       Some("public"), FALSE)>>,
            <<>>, Some(<<"n", "a", ":", ":", "W", "i", "n", "d", "o", "w">>))

CreateFunction ==
    IRFunction(<<"n", "a", "_", "c", "r", "e", "a", "t", "e">>, Some(ConstCharPtr),
               <<IRParam(<<"n">>, IntType, FALSE, None)>>, None, FALSE, None)

GenModules ==
    {IRModule(<<>>),
     IRModule(<<"s", "r", "c", "/", "n", "a", "_", "w", "i", "n", "d", "o", "w", ".", "h">> :> IRFile(<<WindowClass, CreateFunction>>)
              @@ <<"s", "r", "c", "/", "a", ".", "h">> :> IRFile(<<CreateFunction,
                                        IRStruct(<<"P", "o", "i", "n", "t">>,
                                                 <<IRField(<<"x">>, IntType)>>,
                                                 None)>>)),
     IRModule(<<"a", ".", "h">> :> IRFile(<<IRAlias(<<"H", "a", "n", "d", "l", "e">>, Some(IntType))>>)
              @@ <<"a", ".", "h", "p", "p">> :> IRFile(<<IRConstant(<<"M", "A", "X">>, None, [int |-> 16])>>)),
     IRModule(<<"a", ".", "d", "a", "r", "t", "/", "b", ".", "h">> :> IRFile(<<>>)
              @@ <<"a", ".", "h">> :> IRFile(<<CreateFunction>>)
              @@ <<"/", "a", "b", "s", "/", "x", ".", "h">> :> IRFile(<<IREnum(<<"M", "o", "d", "e">>,
                                                <<IREnumValue(<<"O", "N">>, 1)>>,
                                                FALSE, None)>>))}

\* A formatter entry of the options of the mapping configuration.
Formatter(cmd, continue_on_error) ==
    [cmd |-> cmd, continue_on_error |-> continue_on_error]

FormatterLists ==
    {<<>>,
     <<Formatter(<<<<"d", "a", "r", "t">>, <<"f", "o", "r", "m", "a", "t">>, <<"{", "o", "u", "t", "_", "d", "i", "r", "}">>>>, FALSE)>>,
     <<Formatter(<<<<"d", "a", "r", "t">>, <<"f", "o", "r", "m", "a", "t">>, <<"{", "o", "u", "t", "_", "d", "i", "r", "}">>>>, TRUE),
       Formatter(<<<<"c", "l", "a", "n", "g", "-", "f", "o", "r", "m", "a", "t">>, <<"-", "i">>>>, FALSE)>>}

\* The executables that are missing or exit non-zero on this machine.
FailingCommands == {{}, {<<"d", "a", "r", "t">>}}

GenMappings ==
    {MappingConfig(<<>>, None, TRUE, <<>>, None, None, DefaultNaming,
                   NoOptions),
     BridgedConfig}

GenConfigs ==
    {BindgenConfig([m EXCEPT !.options = [formatters |-> f] @@ @],
                   [allowlist_regex |-> <<>>, denylist_regex |-> <<>>,
                    exclude_dirs |-> <<>>]) :
        m \in GenMappings, f \in FormatterLists}

\* The template directory next to the configuration file: whether it
\* exists, the entries of template/, and the entries of template/file/ if
\* that directory exists.
TemplateTree(root, global, file) ==
    [root |-> root, global |-> global, file |-> file]

TemplateTrees ==
    {TemplateTree(FALSE, {}, None),
     TemplateTree(TRUE, {<<"i", "n", "d", "e", "x", ".", "j", "2">>, <<"n", "o", "t", "e", "s", ".", "t", "x", "t">>}, None),
     TemplateTree(TRUE, {<<"i", "n", "d", "e", "x", ".", "j", "2">>}, Some({<<"d", "a", "r", "t", ".", "j", "2">>, <<"r", "s", ".", "j", "2">>})),
     TemplateTree(TRUE, {<<"a", ".", "d", "a", "r", "t", ".", "j", "2">>, <<"s", "r", "c", ".", "j", "2">>}, Some({<<"d", "a", "r", "t", ".", "j", "2">>})),
     TemplateTree(TRUE, {<<".", "j", "2">>, <<".", "j", "2", ".", "j", "2">>}, Some({<<"d", "a", "r", "t", ".", "j", "2">>})),
     TemplateTree(TRUE, {}, Some({<<".", "j", "2">>, <<".", "j", "2", ".", "j", "2">>, <<"R", "E", "A", "D", "M", "E", ".", "m", "d">>}))}

OutDir == posix_path(<<"o", "u", "t">>)

\* The output directory as cli.main hands it over: created, and empty.
FreshOutDir == [files |-> <<>>, dirs |-> ancestors(OutDir)]

\* The entries of a directory that match "*.j2".
glob_j2(entries) == {e \in entries : EndsWith(e, <<".", "j", "2">>)}

\* The orders that a listing of the entries can have.
Listings(entries) ==
    {l \in [1..Cardinality(entries) -> entries] : Range(l) = entries}

GenInit ==
    /\ FuncIdle
    /\ TypeIdle
    /\ NameIdle
    /\ MethodIdle
    /\ NormIdle
    /\ SerIdle
    /\ CliIdle
    /\ g_in \in {Some([module |-> m, cfg |-> c, out_dir |-> OutDir,
                       tree |-> t, failing |-> x]) :
                    m \in GenModules, c \in GenConfigs, t \in TemplateTrees,
                    x \in FailingCommands}
    /\ g_glob = [r \in Runs |-> None]
    /\ g_run = [r \in Runs |-> None]
    /\ g_context = None

\* build_context, called on the module and the mapping configuration.
BuildContext ==
    /\ g_in # None
    /\ g_context = None
    /\ g_context' = Some(build_context(g_in[1].module, g_in[1].cfg.mapping))
    /\ UNCHANGED <<g_in, g_glob, g_run>>
    /\ UNCHANGED otherThanGen

GenerateBindings(r) ==
    /\ g_in # None
    /\ g_run[r] = None
    /\ LET in == g_in[1]
           file_entries == IF in.tree.file = None THEN {} ELSE in.tree.file[1]
       IN  \E global_glob \in Listings(glob_j2(in.tree.global)),
              file_glob \in Listings(glob_j2(file_entries)) :
              /\ g_glob' = [g_glob EXCEPT ![r] =
                              Some([global |-> global_glob,
                                    file |-> file_glob])]
              /\ g_run' = [g_run EXCEPT ![r] =
                              Some(generate_bindings(in.module, in.cfg,
                                                     in.out_dir, in.tree,
                                                     global_glob, file_glob,
                                                     FreshOutDir))]
    /\ UNCHANGED <<g_in, g_context>>
    /\ UNCHANGED otherThanGen

GenNext ==
    \/ BuildContext
    \/ \E r \in Runs : GenerateBindings(r)

SpecGen == GenInit /\ [][GenNext]_vars

----------------------------------------------------------------------------
(* The command-line specification: one run of cli.main. *)

Arguments ==
    {[config |-> <<"b", "i", "n", "d", "g", "e", "n", ".", "y", "a", "m", "l">>, out |-> <<"o", "u", "t">>, lang |-> lang,
      dump_ir |-> dump_ir, platform |-> platform] :
        lang \in {None, Some(<<<<"d", "a", "r", "t">>>>)},
        dump_ir \in {None, Some(<<"i", "r", ".", "j", "s", "o", "n">>)},
        platform \in {None, Some(<<"l", "i", "n", "u", "x">>)}}

\* What load_config comes to: a configuration, or no readable file.
LoadedConfigs ==
    {Raised("FileNotFoundError")}
    \cup {Ok(BindgenConfig(m, [allowlist_regex |-> a, denylist_regex |-> <<>>,
                               exclude_dirs |-> <<>>])) :
            m \in GenMappings, a \in AllowLists}

\* What parse_headers comes to: a translation unit of at most one top-level
\* declaration, or a parse error.
ParsedHeaders ==
    {Raised("ParseError")}
    \cup {Ok(t) : t \in {u \in TranslationUnits : Len(u) <= 1}}

CliTrees ==
    {TemplateTree(FALSE, {}, None),
     TemplateTree(TRUE, {<<"i", "n", "d", "e", "x", ".", "j", "2">>}, Some({<<"d", "a", "r", "t", ".", "j", "2">>}))}

CliInit ==
    /\ FuncIdle
    /\ TypeIdle
    /\ NameIdle
    /\ MethodIdle
    /\ NormIdle
    /\ SerIdle
    /\ GenIdle
    /\ c_in \in {Some([args |-> a, config |-> c, parse |-> p, tree |-> t,
                       root |-> ProjectRoot]) :
                    a \in Arguments, c \in LoadedConfigs, p \in ParsedHeaders,
                    t \in CliTrees}
    /\ c_exit = None

Main ==
    /\ c_in # None
    /\ c_exit = None
    /\ LET in == c_in[1]
           file_entries == IF in.tree.file = None THEN {} ELSE in.tree.file[1]
       IN  \E global_glob \in Listings(glob_j2(in.tree.global)),
              file_glob \in Listings(glob_j2(file_entries)) :
              c_exit' = Some(main(in.args,
                                  [config |-> in.config, parse |-> in.parse,
                                   tree |-> in.tree, root |-> in.root,
                                   global_glob |-> global_glob,
                                   file_glob |-> file_glob]))
    /\ UNCHANGED c_in
    /\ UNCHANGED otherThanCli

CliNext == Main

SpecCli == CliInit /\ [][CliNext]_vars

----------------------------------------------------------------------------
(* Claims about the serializer (checked under SpecSer) *)

\* C2: for every IRModule m, items with an unset optional type field
\* included, load_ir_json of the document that dump_ir_json(m) wrote
\* returns a module equal to m: same file keys, same items in the same
\* order, same nested types and field values.
C2_RoundTrip ==
    spc = "reloaded" => s_loaded = Some(Ok(s_module[1]))

----------------------------------------------------------------------------
(* Claims about the normalizer (checked under SpecNorm) *)

\* The names of the items of the IR, over all its files.
ItemNames(m) ==
    UNION {{m.files[p].items[i].name : i \in DOMAIN m.files[p].items} :
             p \in DOMAIN m.files}

\* No deny pattern matches the name and, when allow patterns are
\* configured, one of them does.
Admitted(n, f) ==
    /\ \A i \in DOMAIN f.deny : ~re_search(f.deny[i], n)
    /\ f.allow # <<>> => \E i \in DOMAIN f.allow : re_search(f.allow[i], n)

\* A top-level function declaration of that name, in a file that is not
\* excluded, without the ignore marker and not an operator.
DeclaresFunction(n) ==
    \E i \in DOMAIN tu_in[1] :
        /\ tu_in[1][i].kind = "FUNCTION_DECL"
        /\ tu_in[1][i].spelling = n
        /\ tu_in[1][i].file # None
        /\ ~is_excluded(tu_in[1][i], filters[1].exclude)
        /\ ~is_ignored(tu_in[1][i])

\* C5: a declaration with simple name n is in the IR only if no deny
\* pattern matches n and, when allow patterns are configured, at least one
\* matches n; with the allowlist ['^Window'] no item named Helper is in any
\* IRFile, while a declared function WindowCreate that no deny pattern
\* matches is.
C5_NameFiltering ==
    npc = "normalized" =>
        /\ \A n \in ItemNames(ir_module[1]) : Admitted(n, filters[1])
        /\ filters[1].allow = <<<<"^", "W", "i", "n", "d", "o", "w">>>> =>
             /\ <<"H", "e", "l", "p", "e", "r">> \notin ItemNames(ir_module[1])
             /\ (/\ DeclaresFunction(<<"W", "i", "n", "d", "o", "w", "C", "r", "e", "a", "t", "e">>)
                 /\ \A i \in DOMAIN filters[1].deny :
                      ~re_search(filters[1].deny[i], <<"W", "i", "n", "d", "o", "w", "C", "r", "e", "a", "t", "e">>))
                => <<"W", "i", "n", "d", "o", "w", "C", "r", "e", "a", "t", "e">> \in ItemNames(ir_module[1])

\* With the allowlist ['^Window'] a unit that declares Helper and
\* WindowCreate has been normalized to an IR that holds WindowCreate only.
C5_Witness ==
    /\ npc = "normalized"
    /\ filters[1].allow = <<<<"^", "W", "i", "n", "d", "o", "w">>>>
    /\ filters[1].deny = <<>>
    /\ DeclaresFunction(<<"H", "e", "l", "p", "e", "r">>)
    /\ DeclaresFunction(<<"W", "i", "n", "d", "o", "w", "C", "r", "e", "a", "t", "e">>)
    /\ ItemNames(ir_module[1]) = {<<"W", "i", "n", "d", "o", "w", "C", "r", "e", "a", "t", "e">>}

\* The <<path, item>> pairs that the traversal of the translation unit
\* appends to the buckets, in the order of the traversal.
Accepted ==
    Join(<<>>, [i \in DOMAIN tu_in[1] |-> visit(tu_in[1][i], <<>>, filters[1])])

\* The items accepted for one source file, in the order of the traversal.
AcceptedFor(path) ==
    LET mine == SelectSeq(Accepted, LAMBDA a : a[1] = path)
    IN  [i \in DOMAIN mine |-> mine[i][2]]

\* The items of the name, in their order in `items`.
Named(items, n) == SelectSeq(items, LAMBDA item : item.name = n)

\* C19: after normalize_translation_unit, in every bucket the items are in
\* non-decreasing order of name, the items of one name are in the order of
\* the traversal, and the bucket holds the items accepted for its file,
\* each as often as it was accepted.
C19_BucketsSortedByName ==
    npc = "normalized" =>
        \A p \in DOMAIN ir_module[1].files :
            LET items == ir_module[1].files[p].items
                mine == AcceptedFor(p)
            IN  /\ Len(items) = Len(mine)
                /\ \A i \in 1..(Len(items) - 1) :
                      ~StrLess(items[i + 1].name, items[i].name)
                /\ \A i \in DOMAIN mine :
                      Named(items, mine[i].name) = Named(mine, mine[i].name)
                /\ \A i \in DOMAIN items :
                      Named(items, items[i].name) = Named(mine, items[i].name)

\* A bucket that the sort has reordered and that holds two different items
\* of one name.
C19_Witness ==
    /\ npc = "normalized"
    /\ \E p \in DOMAIN ir_module[1].files :
          LET items == ir_module[1].files[p].items
          IN  /\ items # AcceptedFor(p)
              /\ \E i, j \in DOMAIN items :
                    /\ i < j
                    /\ items[i].name = items[j].name
                    /\ items[i] # items[j]

\* The items of the IR, over all its files.
ItemsOf(m) ==
    UNION {{m.files[p].items[i] : i \in DOMAIN m.files[p].items} :
             p \in DOMAIN m.files}

\* A record definition at the top level of the translation unit that the
\* traversal reaches and that passes the filters.
IsAcceptedRecord(c) ==
    /\ c.kind \in {"STRUCT_DECL", "CLASS_DECL"}
    /\ c.is_definition
    /\ c.file # None
    /\ ~is_excluded(c, filters[1].exclude)
    /\ ~is_ignored(c)
    /\ c.spelling # <<>>
    /\ Admitted(c.spelling, filters[1])

ChildrenOfKind(c, kinds) == SelectSeq(c.children, LAMBDA child : child.kind \in kinds)

\* The record has a method, a constructor, a destructor or a base specifier.
HasCppMember(c) ==
    ChildrenOfKind(c, {"CXX_METHOD", "CONSTRUCTOR", "DESTRUCTOR",
                       "CXX_BASE_SPECIFIER"}) # <<>>

\* Every field and every method of the class is of a public member of the
\* record, and bases lists the names of the base specifiers of the record.
IsPublicClassOf(item, c) ==
    /\ item.kind = "class"
    /\ \A i \in DOMAIN item.fields :
          \E k \in DOMAIN c.children :
              /\ c.children[k].kind = "FIELD_DECL"
              /\ c.children[k].access_specifier = "PUBLIC"
              /\ c.children[k].spelling = item.fields[i].name
    /\ \A i \in DOMAIN item.methods :
          /\ item.methods[i].access = Some("public")
          /\ \E k \in DOMAIN c.children :
                /\ c.children[k].access_specifier = "PUBLIC"
                /\ \/ /\ c.children[k].kind = "CXX_METHOD"
                      /\ item.methods[i].kind = "method"
                      /\ item.methods[i].name = c.children[k].spelling
                   \/ /\ c.children[k].kind = "CONSTRUCTOR"
                      /\ item.methods[i].kind = "constructor"
                   \/ /\ c.children[k].kind = "DESTRUCTOR"
                      /\ item.methods[i].kind = "destructor"
    /\ LET specifiers == ChildrenOfKind(c, {"CXX_BASE_SPECIFIER"})
       IN  item.bases = [k \in DOMAIN specifiers |->
                            specifiers[k].type[1].spelling]

\* The struct has a field for every field declaration of the record, in
\* the order of the declarations, and nothing else.
IsPlainStructOf(item, c) ==
    /\ item.kind = "struct"
    /\ DOMAIN item = {"kind", "name", "fields", "qualified_name"}
    /\ LET decls == ChildrenOfKind(c, {"FIELD_DECL"})
       IN  /\ Len(item.fields) = Len(decls)
           /\ \A k \in DOMAIN decls : item.fields[k].name = decls[k].spelling

MappedClasses ==
    UNION {{[ir |-> ir_module[1].files[p].items[i],
             made |-> n_context[1].files[p].items[i]] :
               i \in {j \in DOMAIN ir_module[1].files[p].items :
                         ir_module[1].files[p].items[j].kind = "class"}} :
             p \in DOMAIN ir_module[1].files}

\* The rule of map_method: the name is that of the class, starts with '~'
\* or is GetInstance.
NamedToSkip(method_name, class_name) ==
    \/ method_name = class_name
    \/ StartsWith(method_name, <<"~">>)
    \/ method_name = <<"G", "e", "t", "I", "n", "s", "t", "a", "n", "c", "e">>

\* The normalizer names a constructor after the record and a destructor
\* '~' + record, both returning void.
IsSynthesized(method) == method.kind \in {"constructor", "destructor"}

SynthesizedAsStated(method, class_name) ==
    /\ method.kind = "constructor" =>
          /\ method.name = class_name
          /\ method.return_type = IRKind("void", <<>>)
    /\ method.kind = "destructor" =>
          /\ method.name = <<"~">> \o class_name
          /\ method.return_type = IRKind("void", <<>>)

\* C27 as stated: skip is true exactly when the name of the method is the
\* name of the class, starts with '~' or is GetInstance; every constructor
\* and destructor that the normalizer synthesizes is marked skip in the
\* mapped class, and no other method is.
C27_SkipAsStated ==
    npc = "mapped" =>
        \A c \in MappedClasses :
            /\ Len(c.made.methods) = Len(c.ir.methods)
            /\ \A k \in DOMAIN c.ir.methods :
                  /\ c.made.methods[k].skip
                        <=> NamedToSkip(c.ir.methods[k].name, c.ir.name)
                  /\ SynthesizedAsStated(c.ir.methods[k], c.ir.name)
                  /\ c.made.methods[k].skip <=> IsSynthesized(c.ir.methods[k])

\* C27, amended: skip is true exactly when the name of the method is the
\* name of the class, starts with '~' or is GetInstance; every constructor
\* and destructor that the normalizer synthesizes is marked skip in the
\* mapped class, and of the other methods those named GetInstance are, and
\* no more.
C27_MethodSkipping ==
    npc = "mapped" =>
        \A c \in MappedClasses :
            /\ Len(c.made.methods) = Len(c.ir.methods)
            /\ \A k \in DOMAIN c.ir.methods :
                  /\ c.made.methods[k].skip
                        <=> NamedToSkip(c.ir.methods[k].name, c.ir.name)
                  /\ SynthesizedAsStated(c.ir.methods[k], c.ir.name)
                  /\ c.made.methods[k].skip
                        <=> \/ IsSynthesized(c.ir.methods[k])
                            \/ c.ir.methods[k].name = <<"G", "e", "t", "I", "n", "s", "t", "a", "n", "c", "e">>

\* A class with a constructor, the accessor GetInstance and one more method
\* has been mapped: the first two are marked skip, the third is not.
C27_Witness ==
    /\ npc = "mapped"
    /\ \E c \in MappedClasses :
          \E i, j, k \in DOMAIN c.made.methods :
              /\ c.ir.methods[i].kind = "constructor"
              /\ c.made.methods[i].skip
              /\ c.ir.methods[j].name = <<"G", "e", "t", "I", "n", "s", "t", "a", "n", "c", "e">>
              /\ c.made.methods[j].skip
              /\ c.ir.methods[k].kind = "method"
              /\ ~c.made.methods[k].skip

----------------------------------------------------------------------------
(* Claims about naming (checked under SpecName) *)

\* The name without its first n and its last m characters.
Middle(s, n, m) == SubSeq(s, n + 1, Len(s) - m)

\* C6: transform_name works in the order strip -> style -> add. The result
\* begins with add_prefix and ends with add_suffix exactly as configured
\* (neither restyled nor stripped), what lies between them is the style
\* applied to the name with its strip prefix and suffix removed, and with
\* strip prefix "na_" and style pascal_case the name na_window_create
\* becomes WindowCreate.
C6_StripStyleAdd ==
    nmpc = "transformed" =>
        LET r == nm_result[1]
            stripped == strip_affixes(nm.name, nm.strip_prefixes,
                                      nm.strip_suffixes)
        IN  /\ StartsWith(r, nm.add_prefix)
            /\ EndsWith(r, nm.add_suffix)
            /\ Len(r) >= Len(nm.add_prefix) + Len(nm.add_suffix)
            /\ Middle(r, Len(nm.add_prefix), Len(nm.add_suffix))
                 = apply_style(stripped, nm.style)
            /\ (/\ nm.name = <<"n", "a", "_", "w", "i", "n", "d", "o", "w", "_", "c", "r", "e", "a", "t", "e">>
                /\ nm.style = "pascal_case"
                /\ nm.strip_prefixes = <<<<"n", "a", "_">>>>
                /\ nm.strip_suffixes = <<>>
                /\ nm.add_prefix = <<>>
                /\ nm.add_suffix = <<>>)
               => r = <<"W", "i", "n", "d", "o", "w", "C", "r", "e", "a", "t", "e">>

\* na_window_create, stripped of "na_", in pascal_case and given the prefix
\* "na_" again, has become na_WindowCreate.
C6_Witness ==
    /\ nmpc = "transformed"
    /\ nm.name = <<"n", "a", "_", "w", "i", "n", "d", "o", "w", "_", "c", "r", "e", "a", "t", "e">>
    /\ nm.style = "pascal_case"
    /\ nm.strip_prefixes = <<<<"n", "a", "_">>>>
    /\ nm.strip_suffixes = <<>>
    /\ nm.add_prefix = <<"n", "a", "_">>
    /\ nm.add_suffix = <<>>
    /\ nm_result = Some(<<"n", "a", "_", "W", "i", "n", "d", "o", "w", "C", "r", "e", "a", "t", "e">>)

\* The longest affix of the list that matches, if any does.
LongestOf(matching) ==
    IF matching = {} THEN None
    ELSE Some(CHOOSE a \in matching : \A b \in matching : Len(b) <= Len(a))

\* C7: strip_affixes removes exactly the longest configured prefix that the
\* name starts with (none if none matches), then exactly the longest
\* configured suffix that the remaining text ends with, and nothing else.
C7_LongestAffixOnce ==
    nmpc = "stripped" =>
        LET p == LongestOf({a \in Range(nm.strip_prefixes) :
                                StartsWith(nm.name, a)})
            rest == IF p = None THEN nm.name ELSE From(nm.name, Len(p[1]))
            q == LongestOf({a \in Range(nm.strip_suffixes) :
                                EndsWith(rest, a)})
        IN  nm_result[1] =
                IF q = None THEN rest
                ELSE SubSeq(rest, 1, Len(rest) - Len(q[1]))

----------------------------------------------------------------------------
(* Claims about type mapping (checked under SpecType) *)

\* The trees of claim C3: every node is void, primitive, pointer, array,
\* reference or a named kind.
RECURSIVE CoreKinds(_)
CoreKinds(o) ==
    \/ o = None
    \/ /\ o[1].kind \in {"void", "primitive", "pointer", "array", "reference"}
                        \cup NamedKinds
       /\ CoreKinds(o[1].to)
       /\ CoreKinds(o[1].element)

\* C3: map_type is total. For every IRType tree over the kinds void,
\* primitive, pointer, array, reference and named (absent inner types,
\* element types and names included), when passthrough_unknown is true or
\* default_type is set, map_type raises nothing and returns a MappedType
\* whose raw field is the tree it was given.
C3_MapTypeTotal ==
    (/\ tpc = "mapped"
     /\ CoreKinds(ir_type)
     /\ (mapping.passthrough_unknown \/ mapping.default_type # None))
    => /\ mapped[1].exc = ""
       /\ mapped[1].val.raw =
            (IF ir_type = None THEN IRKind("void", <<>>) ELSE ir_type[1])

\* A pointer to a named type without a name, passthrough off and a default
\* type configured, has been mapped.
C3_Witness ==
    /\ tpc = "mapped"
    /\ ir_type # None
    /\ ir_type[1].kind = "pointer"
    /\ ir_type[1].to # None
    /\ ir_type[1].to[1].kind = "named"
    /\ ir_type[1].to[1].name = None
    /\ ~mapping.passthrough_unknown
    /\ mapping.default_type = Some(<<"A", "n", "y">>)
    /\ mapped[1].exc = ""
    /\ mapped[1].val.mapped = <<"A", "n", "y", "*">>

\* C4: with passthrough_unknown false and no default_type, mapping a
\* primitive or named type whose name has no entry in the type table ends in
\* an error: the unresolved name is not returned as the mapped string.
C4_UnresolvedTypeRaises ==
    (/\ tpc = "mapped"
     /\ ir_type # None
     /\ ir_type[1].kind \in {"primitive"} \cup NamedKinds
     /\ Truthy(ir_type[1].name)
     /\ ~mapping.passthrough_unknown
     /\ mapping.default_type = None
     /\ ir_type[1].name[1] \notin DOMAIN mapping.types
     /\ (<<"c", "o", "n", "s", "t", " ">> \o ir_type[1].name[1]) \notin DOMAIN mapping.types)
    => mapped[1].exc # ""

\* C9: with const_char_pointer_type configured, the C type `const char *`,
\* as the normalizer puts it in the IR, maps to the configured value.
C9_ConstCharPointerConfigured ==
    (/\ tpc = "mapped"
     /\ tp # None
     /\ tp[1].kind = "POINTER"
     /\ tp[1].pointee[1].kind \in {"CHAR_S", "CHAR_U"}
     /\ tp[1].pointee[1].const
     /\ Truthy(mapping.const_char_pointer_type))
    => /\ mapped[1].exc = ""
       /\ mapped[1].val.mapped = mapping.const_char_pointer_type[1]

\* The candidates of a pointer in the order of the claim: <<applicable,
\* string>> pairs, of which map_type is to return the first applicable one.
FirstApplicable(candidates) ==
    candidates[CHOOSE i \in DOMAIN candidates :
                  /\ candidates[i][1]
                  /\ \A j \in 1..(i - 1) : ~candidates[j][1]][2]

\* The mapped string of the pointee of a pointer ("void" without pointee).
PointeeMapped ==
    IF ir_type[1].to = None THEN <<"v", "o", "i", "d">>
    ELSE map_type(mapping, ir_type[1].to).val.mapped

\* C21: a const pointer whose pointee gives the key k maps to the first
\* applicable of types['const k'], types[k], void_pointer_type (k is
\* 'void*'), const_char_pointer_type (k is 'char*') and const_pointer_format
\* with the mapped pointee; a pointer that is not const maps to the first
\* applicable of types[k], void_pointer_type (k is 'void*') and
\* pointer_format with the mapped pointee.
C21_PointerResolutionOrder ==
    (/\ tpc = "mapped"
     /\ ir_type # None
     /\ ir_type[1].kind = "pointer"
     /\ ptr_key(ir_type[1].to) # None)
    => LET k == ptr_key(ir_type[1].to)[1]
           types == mapping.types
           const == "const" \in Range(ir_type[1].qualifiers)
           in_table(key) == key \in DOMAIN types
           entry(key) == IF in_table(key) THEN types[key] ELSE <<>>
           special(configured) ==
               IF configured # None THEN configured[1] ELSE <<>>
           void_pointer == /\ mapping.void_pointer_type \notin {None, Some(<<>>)}
                           /\ k = <<"v", "o", "i", "d", "*">>
           char_pointer ==
               /\ mapping.const_char_pointer_type \notin {None, Some(<<>>)}
               /\ k = <<"c", "h", "a", "r", "*">>
       IN  /\ mapped[1].exc = ""
           /\ mapped[1].val.mapped =
                IF const
                THEN FirstApplicable(
                       <<<<in_table(<<"c", "o", "n", "s", "t", " ">> \o k), entry(<<"c", "o", "n", "s", "t", " ">> \o k)>>,
                         <<in_table(k), entry(k)>>,
                         <<void_pointer, special(mapping.void_pointer_type)>>,
                         <<char_pointer,
                           special(mapping.const_char_pointer_type)>>,
                         <<TRUE, <<"c", "o", "n", "s", "t", " ">> \o PointeeMapped \o <<"*">>>>>>)
                ELSE FirstApplicable(
                       <<<<in_table(k), entry(k)>>,
                         <<void_pointer, special(mapping.void_pointer_type)>>,
                         <<TRUE, PointeeMapped \o <<"*">>>>>>)

\* A const pointer to char has been mapped under a table that holds both
\* 'const char*' and 'char*', with const_char_pointer_type configured: the
\* entry of the const key is the result.
C21_Witness ==
    /\ tpc = "mapped"
    /\ ir_type # None
    /\ ir_type[1].kind = "pointer"
    /\ "const" \in Range(ir_type[1].qualifiers)
    /\ ptr_key(ir_type[1].to) = Some(<<"c", "h", "a", "r", "*">>)
    /\ <<"c", "h", "a", "r", "*">> \in DOMAIN mapping.types
    /\ <<"c", "o", "n", "s", "t", " ", "c", "h", "a", "r", "*">> \in DOMAIN mapping.types
    /\ mapping.types[<<"c", "h", "a", "r", "*">>] # mapping.types[<<"c", "o", "n", "s", "t", " ", "c", "h", "a", "r", "*">>]
    /\ mapping.const_char_pointer_type # None
    /\ mapped[1].val.mapped = mapping.types[<<"c", "o", "n", "s", "t", " ", "c", "h", "a", "r", "*">>]

\* C22: a primitive or named type with name n maps, on a hit in the type
\* table (of 'const n' when the type is const and the table holds that key,
\* of n otherwise), to type_prefix + the table value + type_suffix; on a
\* miss to type_prefix + n + type_suffix when passthrough_unknown is true,
\* and to default_type when passthrough is off and a default is configured.
C22_LookupWrapsWithPrefixSuffix ==
    (/\ tpc = "mapped"
     /\ ir_type # None
     /\ ir_type[1].kind \in {"primitive"} \cup NamedKinds
     /\ Truthy(ir_type[1].name))
    => LET n == ir_type[1].name[1]
           types == mapping.types
           const == "const" \in Range(ir_type[1].qualifiers)
           wrapped(s) == mapping.type_prefix \o s \o mapping.type_suffix
           result == mapped[1].val.mapped
       IN  /\ mapped[1].exc = ""
           /\ IF const /\ (<<"c", "o", "n", "s", "t", " ">> \o n) \in DOMAIN types
              THEN result = wrapped(types[<<"c", "o", "n", "s", "t", " ">> \o n])
              ELSE IF n \in DOMAIN types
              THEN result = wrapped(types[n])
              ELSE IF mapping.passthrough_unknown
              THEN result = wrapped(n)
              ELSE Truthy(mapping.default_type)
                   => result = mapping.default_type[1]

\* The kind tags of the IR model's variant set.
VariantKinds ==
    {"void", "primitive", "pointer", "array", "reference", "function_pointer",
     "unknown"} \cup NamedKinds

\* A node of the variant set with the parts its kind requires, at every
\* nesting depth.
RECURSIVE WellFormedType(_)
WellFormedType(t) ==
    /\ t.kind \in VariantKinds
    /\ t.kind \in ({"primitive"} \cup NamedKinds) => t.name # None
    /\ t.kind \in {"pointer", "reference"} => t.to # None
    /\ t.kind = "array" => t.element # None
    /\ t.to # None => WellFormedType(t.to[1])
    /\ t.element # None => WellFormedType(t.element[1])

\* C28: every IRType the normalizer builds from a C type has, at every
\* nesting depth, a kind of the variant set {void, primitive, pointer, array,
\* reference, named (struct, enum, class, typedef, elaborated),
\* function_pointer, unknown}; primitive and named nodes carry a name,
\* pointer and reference nodes an inner type, array nodes an element type.
C28_NormalizedTypesInVariantSet ==
    (tp # None /\ ir_type # None) => WellFormedType(ir_type[1])

\* C30: the two type-mapping implementations agree.  For every IRType tree
\* and every mapping configuration, the string that the template filter
\* map_type returns for the tree is the mapped string of
\* TypeMapper.map_type for the same tree.
C30_FilterAgreesWithMapper ==
    tpc = "filtered" => filtered[1] = mapped[1].val.mapped

----------------------------------------------------------------------------
(* Claims about the mapping of methods (checked under SpecMethod) *)

\* The method's name starts with the getter marker.
HasGetMarker(m) == StartsWith(m.name, <<"G", "e", "t">>)

\* The method returns void.
ReturnsVoid(m) == m.return_type.kind = "void"

\* The name with the leading "Get" stripped and the first remaining
\* character lower-cased.
StrippedGetterName(name) ==
    LET rest == SubSeq(name, 4, Len(name))
    IN  [i \in DOMAIN rest |-> IF i = 1 THEN LowerChar(rest[i]) ELSE rest[i]]

\* A method with a parameter is no property, and a Get method that returns
\* void is no property and has no property name.
NonGettersStayMethods ==
    /\ m_method[1].params # <<>> =>
         /\ ~m_mapped[1].is_property
         /\ m_mapped[1].property_name = <<>>
    /\ (HasGetMarker(m_method[1]) /\ ReturnsVoid(m_method[1])) =>
         /\ ~m_mapped[1].is_property
         /\ m_mapped[1].property_name = <<>>

\* C8 as stated: every method whose name starts with "Get", with no
\* parameters and a non-void return type, is mapped with is_property true
\* and the name without "Get", first character lower-cased, as its
\* property_name; a method with a parameter or a void return is not
\* classified as a getter.
C8_GetterAsStated ==
    mpc = "mapped" =>
        /\ (/\ HasGetMarker(m_method[1])
            /\ m_method[1].params = <<>>
            /\ ~ReturnsVoid(m_method[1]))
           => /\ m_mapped[1].is_property
              /\ m_mapped[1].property_name
                   = StrippedGetterName(m_method[1].name)
        /\ NonGettersStayMethods

\* C8, amended: every method whose name starts with "Get", with no
\* parameters and a non-void return type, is mapped with is_property true;
\* its property_name is the name without "Get", first character
\* lower-cased, when the name is longer than "Get", and the name "Get"
\* itself when the method is called just that; a method with a parameter or
\* a void return is not classified as a getter.
C8_GetterClassification ==
    mpc = "mapped" =>
        /\ (/\ HasGetMarker(m_method[1])
            /\ m_method[1].params = <<>>
            /\ ~ReturnsVoid(m_method[1]))
           => /\ m_mapped[1].is_property
              /\ m_mapped[1].property_name
                   = IF m_method[1].name = <<"G", "e", "t">> THEN <<"G", "e", "t">>
                     ELSE StrippedGetterName(m_method[1].name)
        /\ NonGettersStayMethods

\* GetWidth, without parameters and returning int, has been mapped to the
\* property width.
C8_Witness ==
    /\ mpc = "mapped"
    /\ m_method[1].name = <<"G", "e", "t", "W", "i", "d", "t", "h">>
    /\ m_method[1].params = <<>>
    /\ m_method[1].return_type = IntType
    /\ m_mapped[1].is_property
    /\ m_mapped[1].property_name = <<"w", "i", "d", "t", "h">>

----------------------------------------------------------------------------
(* Claims about the mapping of callables (checked under SpecCallable) *)

\* The override of the key when the table has one, the fallback otherwise.
OverrideOr(overrides, key, fallback) ==
    IF key \in DOMAIN overrides THEN overrides[key] ELSE fallback

\* The qualified name of a function or class; its name when the IR holds
\* no qualified name for it.
QualifiedOrName(node) ==
    IF node.qualified_name \in {None, Some(<<>>)} THEN node.name
    ELSE node.qualified_name[1]

\* C23: the call_symbol of a function is the symbol override of its
\* qualified name when the table has one and 'native_' + snake_case(name)
\* otherwise; the call_symbol of a method is the override of
\* '<qualified class>::<method name>' when the table has one and
\* 'native_' + snake_case(class) + '_' + snake_case(method) otherwise.
\* Naming rules and parameters have no part in it.
C23_CallSymbolResolution ==
    /\ fpc = "mapped" =>
          f_mapped[1].call_symbol =
              OverrideOr(f_mapper[1].config.options.symbol_overrides,
                         QualifiedOrName(f_func[1]),
                         <<"n", "a", "t", "i", "v", "e", "_">> \o to_snake_case(f_func[1].name))
    /\ mpc = "mapped" =>
          m_mapped[1].call_symbol =
              OverrideOr(mapper[1].config.options.symbol_overrides,
                         QualifiedOrName(m_class[1]) \o <<":", ":">>
                            \o m_method[1].name,
                         <<"n", "a", "t", "i", "v", "e", "_">> \o to_snake_case(m_class[1].name)
                            \o <<"_">> \o to_snake_case(m_method[1].name))

\* A function whose name the naming rules of the configuration change and
\* whose qualified name has no override has been mapped to the symbol of
\* its snake-cased IR name.
C23_Witness ==
    /\ fpc = "mapped"
    /\ f_func[1].name = <<"n", "a", "_", "c", "r", "e", "a", "t", "e">>
    /\ f_mapped[1].name # f_func[1].name
    /\ QualifiedOrName(f_func[1])
          \notin DOMAIN f_mapper[1].config.options.symbol_overrides
    /\ f_mapper[1].config.options.symbol_overrides # <<>>
    /\ f_mapped[1].call_symbol = <<"n", "a", "t", "i", "v", "e", "_", "n", "a", "_", "c", "r", "e", "a", "t", "e">>

\* The callable that has been mapped, with its mapper and its IR
\* parameters.
MappedCallable ==
    IF fpc = "mapped"
    THEN [mapper |-> f_mapper[1], result |-> f_mapped[1],
          ir_params |-> f_func[1].params]
    ELSE [mapper |-> mapper[1], result |-> m_mapped[1],
          ir_params |-> m_method[1].params]

\* The type that a parameter bridge names, directly or through its alias
\* in bridge_types; empty when it names none.
RuleType(options, rule) ==
    IF rule.type_key \notin {None, Some(<<>>)}
    THEN IF rule.type_key[1] \in DOMAIN options.bridge_types
         THEN options.bridge_types[rule.type_key[1]]
         ELSE <<>>
    ELSE rule.api_type

RuleMatches(options, rule, resolved_type, symbol) ==
    /\ RuleType(options, rule) # <<>> => RuleType(options, rule) = resolved_type
    /\ rule.symbol_suffixes # <<>> =>
          \E i \in DOMAIN rule.symbol_suffixes :
              EndsWith(symbol, rule.symbol_suffixes[i])

\* The argument templates of the first rule with templates that matches,
\* with the parameter name in the place of {name}; the bare name when no
\* rule matches.
BridgedArguments(options, param, symbol) ==
    LET rules == options.param_bridges
        hits == {i \in DOMAIN rules :
                    /\ rules[i].args # <<>>
                    /\ RuleMatches(options, rules[i], param.api_type, symbol)}
    IN  IF hits = {} THEN <<param.name>>
        ELSE LET first == CHOOSE i \in hits : \A j \in hits : i <= j
             IN  [k \in DOMAIN rules[first].args |->
                    Format(rules[first].args[k], [name |-> param.name])]

FreeSymbolOf(table, symbol) ==
    LET hits == {i \in DOMAIN table :
                    /\ table[i][1] \notin {<<"d", "e", "f", "a", "u", "l", "t">>, <<>>}
                    /\ Contains(symbol, table[i][1])}
        defaults == {i \in DOMAIN table : table[i][1] = <<"d", "e", "f", "a", "u", "l", "t">>}
    IN  IF hits # {}
        THEN table[CHOOSE i \in hits : \A j \in hits : i <= j][2]
        ELSE IF defaults # {}
        THEN table[CHOOSE i \in defaults : TRUE][2]
        ELSE <<"f", "r", "e", "e", "_", "c", "_", "s", "t", "r">>

----------------------------------------------------------------------------
(* Claims about the generator (checked under SpecGen) *)

BothRunsDone == \A r \in Runs : g_run[r] # None

\* C1: two runs of the generation on the same module, mapping
\* configuration and template set end the same way and leave the same
\* output tree: the same set of output paths, each with the same content
\* (the mapped context is part of the content that is rendered from it).
C1_Determinism ==
    BothRunsDone =>
        /\ g_run["first"][1].exc = g_run["second"][1].exc
        /\ g_run["first"][1].fs = g_run["second"][1].fs

\* What the formatter policy asks of a run whose files are written: every
\* formatter is invoked in the order of the list, up to and including the
\* first one that fails with continue_on_error false, which aborts the run.
RECURSIVE FormatterPolicy(_, _)
FormatterPolicy(formatters, failing) ==
    IF formatters = <<>> THEN [aborts |-> FALSE, invoked |-> <<>>]
    ELSE LET f == Head(formatters)
             rest == FormatterPolicy(Tail(formatters), failing)
         IN  IF f.cmd[1] \in failing /\ ~f.continue_on_error
             THEN [aborts |-> TRUE, invoked |-> <<f.cmd>>]
             ELSE [aborts |-> rest.aborts, invoked |-> <<f.cmd>> \o rest.invoked]

\* C10: a formatter whose command is missing or exits non-zero aborts the
\* run with a non-zero status when its continue_on_error is false; when
\* its continue_on_error is true the run continues and every later
\* formatter of the list is still invoked.  So a run that ends with status
\* zero has invoked every formatter of the list, in order, and none of
\* those that abort has failed.
C10_FormatterFailurePolicy ==
    \A r \in Runs :
        (g_run[r] # None /\ g_in[1].tree.root) =>
            LET run == g_run[r][1]
                policy == FormatterPolicy(g_in[1].cfg.mapping.options.formatters,
                                          g_in[1].failing)
            IN  /\ policy.aborts => run.exc # ""
                /\ run.exc = "" => run.spawned = policy.invoked

ConfiguredFormatters == g_in[1].cfg.mapping.options.formatters

\* C11: formatters are invoked after the output files of the run are
\* written, in their configured order, one after the other.  So a run that
\* ends with status zero on a machine where no formatter fails has written
\* its files and has then started exactly the configured commands, in the
\* order of the list.
C11_FormatterOrdering ==
    \A r \in Runs :
        (g_run[r] # None /\ g_run[r][1].exc = "" /\ g_in[1].failing = {}) =>
            g_run[r][1].spawned =
                [i \in DOMAIN ConfiguredFormatters |->
                    ConfiguredFormatters[i].cmd]

\* C12: when the template root directory does not exist, generate_bindings
\* ends with an error, having written no output file and created no output
\* directory.
C12_MissingRootWritesNothing ==
    \A r \in Runs :
        (g_run[r] # None /\ ~g_in[1].tree.root) =>
            /\ g_run[r][1].exc = "RuntimeError"
            /\ g_run[r][1].fs = FreshOutDir
            /\ g_run[r][1].writes = <<>>

C12_Witness ==
    /\ g_run["first"] # None
    /\ ~g_in[1].tree.root
    /\ DOMAIN g_in[1].module.files # {}
    /\ g_run["first"][1].exc = "RuntimeError"

\* The file-name transformation of the naming transformer
\* (NameTransformer.file_name) under the naming rules of the configuration.
FileNameOf(stem) ==
    namer_transform(g_in[1].cfg.mapping.naming, stem,
                    g_in[1].cfg.mapping.naming.file_name)

\* C13: the output of the source-file key with directory d and stem s under
\* the per-file template with stem t is written to <out_dir>/d/N(s).t, N
\* being the file-name transformation of the naming transformer.
C13_OutputPathUsesFileNaming ==
    \A r \in Runs :
        g_run[r] # None =>
            \A i \in DOMAIN g_run[r][1].writes :
                LET w == g_run[r][1].writes[i]
                    key == posix_path(w.file[1])
                    t == path_stem(posix_path(w.template))
                IN  w.file # None =>
                        w.path = path_join(
                            path_join(g_in[1].out_dir, path_parent(key)),
                            posix_path(FileNameOf(path_stem(key)) \o <<".">> \o t))

\* C14: two different (source file, per-file template) pairs, or
\* module-level templates, never resolve to the same output path: no
\* rendered file is overwritten by the rendering of another one.
C14_OnePathPerPair ==
    \A r \in Runs :
        g_run[r] # None =>
            \A i, j \in DOMAIN g_run[r][1].writes :
                i # j => resolve(g_run[r][1].writes[i].path)
                            # resolve(g_run[r][1].writes[j].path)

\* The per-file outputs of a run are written in the order of the file keys:
\* no output of a key is written after an output of a greater key.
WritesFollowFileOrder(r) ==
    \A i, j \in DOMAIN g_run[r][1].writes :
        LET a == g_run[r][1].writes[i]
            b == g_run[r][1].writes[j]
        IN  (i < j /\ a.file # None /\ b.file # None) =>
                ~StrLess(b.file[1], a.file[1])

\* C17: every output of a file key p is written before any output of a key
\* q > p, and the order of the writes is the same in every run on the same
\* input.
C17_WriteOrder ==
    /\ \A r \in Runs : g_run[r] # None => WritesFollowFileOrder(r)
    /\ BothRunsDone => g_run["first"][1].writes = g_run["second"][1].writes

\* The path lies inside the directory: below it, once both are resolved.
InsideDir(p, dir) ==
    LET rp == resolve(p)
        rd == resolve(dir)
    IN  /\ rp.root = rd.root
        /\ Len(rp.parts) > Len(rd.parts)
        /\ SubSeq(rp.parts, 1, Len(rd.parts)) = rd.parts

\* C29: every output path computed for a file key of the module lies
\* inside the output root directory, for the relative keys and for the
\* absolute keys of the normalizer alike; a run leaves no file outside the
\* output root.
C29_OutputsInsideOutDir ==
    \A r \in Runs :
        g_run[r] # None =>
            /\ \A i \in DOMAIN g_run[r][1].writes :
                    InsideDir(g_run[r][1].writes[i].path, g_in[1].out_dir)
            /\ \A p \in DOMAIN g_run[r][1].fs.files :
                    InsideDir(p, g_in[1].out_dir)

----------------------------------------------------------------------------
(* Claims about the command line (checked under SpecCli) *)

\* The run meets no error condition before or in the generation: the
\* configuration loads, the headers parse, and the template root is there
\* (the mapper raises on no type).
NoErrorCondition ==
    /\ c_in[1].config.exc = ""
    /\ c_in[1].parse.exc = ""
    /\ c_in[1].args.platform = None
    /\ c_in[1].tree.root

\* C15: a run of main in which configuration loading, parsing,
\* normalization and generation meet no error condition reaches the end of
\* main and returns exit status 0, the output files being written.
C15_MainReturnsZero ==
    (c_exit # None /\ NoErrorCondition) =>
        /\ c_exit[1].exc = ""
        /\ c_exit[1].status = Some(0)
        /\ DOMAIN c_exit[1].fs.files # {}

----------------------------------------------------------------------------
(* Claims about build_context (checked under SpecGen) *)

RECURSIVE SumOf(_)
SumOf(lengths) ==
    IF lengths = <<>> THEN 0 ELSE Head(lengths) + SumOf(Tail(lengths))

\* The per-kind lists of the context, by the kind of their items.
KindLists(context) ==
    [struct |-> context.types, enum |-> context.enums,
     function |-> context.functions, class |-> context.classes,
     constant |-> context.constants, alias |-> context.aliases]

\* `list` holds the items of `items` of the kind, each once, in the order
\* of `items`.
IsSelection(list, items, kind) ==
    LET at == {i \in DOMAIN items : items[i].kind = kind}
        rank(i) == Cardinality({j \in at : j <= i})
    IN  /\ Len(list) = Cardinality(at)
        /\ \A i \in at : list[rank(i)] = items[i]

\* `items` is the concatenation of the items of the files in the order of
\* `file_paths`, each file in its own order.
IsConcatenation(items, file_paths, files) ==
    LET before(k) ==
            SumOf([j \in 1..(k - 1) |-> Len(files[file_paths[j]].items)])
    IN  /\ Len(items) = before(Len(file_paths) + 1)
        /\ \A k \in DOMAIN file_paths :
              \A i \in DOMAIN files[file_paths[k]].items :
                  items[before(k) + i] = files[file_paths[k]].items[i]

\* C16: build_context returns file_paths equal to the file keys of the
\* module in lexicographic order; items is the concatenation, in that file
\* order, of the mapped items of each file in their order in the file; each
\* per-kind list holds the items of its kind in the order of items; every
\* item is in items once and in exactly one per-kind list.
C16_ContextOrder ==
    g_context # None =>
        LET context == g_context[1]
            paths == context.file_paths
        IN  /\ Range(paths) = DOMAIN g_in[1].module.files
            /\ \A k \in 1..(Len(paths) - 1) : StrLess(paths[k], paths[k + 1])
            /\ \A p \in DOMAIN context.files :
                  Len(context.files[p].items)
                      = Len(g_in[1].module.files[p].items)
            /\ IsConcatenation(context.items, paths, context.files)
            /\ \A kind \in DOMAIN KindLists(context) :
                  IsSelection(KindLists(context)[kind], context.items, kind)
            /\ SumOf([k \in 1..6 |->
                        Len(KindLists(context)[
                              <<"struct", "enum", "function", "class",
                                "constant", "alias">>[k]])])
                  = Len(context.items)

\* A context of two files, the second with several items of which two are
\* functions of different files.
C16_Witness ==
    /\ g_context # None
    /\ Len(g_context[1].file_paths) >= 2
    /\ Len(g_context[1].functions) >= 2
    /\ Len(g_context[1].items) >= 4

\* The mapped type `mapped` of the IR type `o` (None where the IR has no
\* type) holds the IR type in raw, and so do the mapped pointee and the
\* mapped array element.
RECURSIVE TypeHoldsRaw(_, _)
TypeHoldsRaw(mapped_node, o) ==
    o # None =>
        /\ mapped_node.raw = o[1]
        /\ mapped_node.inner # None =>
              /\ o[1].to # None
              /\ TypeHoldsRaw(mapped_node.inner[1], o[1].to)
        /\ mapped_node.element # None =>
              /\ o[1].element # None
              /\ TypeHoldsRaw(mapped_node.element[1], o[1].element)

FieldsHoldRaw(mapped_node, ir) ==
    /\ Len(mapped_node) = Len(ir)
    /\ \A i \in DOMAIN ir :
          /\ mapped_node[i].raw = ir[i]
          /\ TypeHoldsRaw(mapped_node[i].type, Some(ir[i].type))

MethodsHoldRaw(mapped_node, ir) ==
    /\ Len(mapped_node) = Len(ir)
    /\ \A i \in DOMAIN ir :
          /\ mapped_node[i].raw = ir[i]
          /\ TypeHoldsRaw(mapped_node[i].return_type, Some(ir[i].return_type))
          /\ FieldsHoldRaw(mapped_node[i].params, ir[i].params)

ItemHoldsRaw(mapped_node, ir) ==
    /\ mapped_node.raw = ir
    /\ mapped_node.kind = ir.kind
    /\ CASE ir.kind = "struct" -> FieldsHoldRaw(mapped_node.fields, ir.fields)
         [] ir.kind = "class" ->
                /\ FieldsHoldRaw(mapped_node.fields, ir.fields)
                /\ MethodsHoldRaw(mapped_node.methods, ir.methods)
         [] ir.kind = "function" ->
                /\ TypeHoldsRaw(mapped_node.return_type, ir.return_type)
                /\ FieldsHoldRaw(mapped_node.params, ir.params)
         [] ir.kind = "alias" -> TypeHoldsRaw(mapped_node.target, ir.target)
         [] ir.kind = "constant" -> TypeHoldsRaw(mapped_node.type, ir.type)
         [] OTHER -> TRUE

\* C18: after build_context the module that the context holds is equal to
\* the module that was passed in, and every mapped file, item, field,
\* parameter, method and type (with the pointee and the element of a type)
\* holds in raw the IR node that it was mapped from.
C18_MappingKeepsIR ==
    g_context # None =>
        LET context == g_context[1]
            module == g_in[1].module
        IN  /\ context.module = module
            /\ context.raw = module
            /\ DOMAIN context.files = DOMAIN module.files
            /\ \A p \in DOMAIN module.files :
                  /\ context.files[p].raw = module.files[p]
                  /\ Len(context.files[p].items) = Len(module.files[p].items)
                  /\ \A i \in DOMAIN module.files[p].items :
                        ItemHoldsRaw(context.files[p].items[i],
                                     module.files[p].items[i])
            /\ \A i \in DOMAIN context.items :
                  \E p \in DOMAIN module.files :
                      \E j \in DOMAIN module.files[p].items :
                          context.items[i].raw = module.files[p].items[j]

\* A context with a class that has a field and a method, and a function
\* that has a parameter and returns a pointer whose pointee is mapped.
C18_Witness ==
    /\ g_context # None
    /\ \E i \in DOMAIN g_context[1].classes :
          /\ g_context[1].classes[i].fields # <<>>
          /\ g_context[1].classes[i].methods # <<>>
    /\ \E i \in DOMAIN g_context[1].functions :
          /\ g_context[1].functions[i].params # <<>>
          /\ g_context[1].functions[i].return_type.inner # None

============================================================================
